---- MODULE Spec2Model ----
(***************************************************************************)
(* Model of the lake-db coordination layer of wetblob: the leased task     *)
(* queue (packages/lake-db/src/store.tasks.ts over the tasks table of      *)
(* migrations/0001_init.sql) and the collector run ledger                  *)
(* (packages/lake-db/src/collect/runner.ts over the runs table).           *)
(*                                                                         *)
(* PostgreSQL semantics the code relies on are modelled as the database    *)
(* provides them (READ COMMITTED):                                         *)
(*   - now() is the start time of the transaction;                         *)
(*   - a statement reads the rows committed when it starts;                *)
(*   - FOR UPDATE SKIP LOCKED passes over a row another transaction has    *)
(*     locked, and re-evaluates the WHERE clause on the latest committed   *)
(*     version of a row that changed since the statement started;          *)
(*   - an UPDATE of a row another transaction has locked waits for it;     *)
(*   - a unique index rejects the second insert of a key.                  *)
(***************************************************************************)
EXTENDS Integers, Sequences, FiniteSets, TLC

\* ------------------------------------------------------------------ bounds

\* rows of table tasks per specification, and the last instant of the clock
MaxLeaseTasks == 2
MaxLeaseTime == 2
MaxLifeTasks == 1

\* rows of table tasks and the last instant of the clock when tasks are retried
MaxRetryTasks == 2
MaxRetryTime == 1

\* rows of table tasks and the last instant of the clock when leases are held
MaxHoldTasks == 1
MaxHoldTime == 2

\* rows of table tasks and the last instant of the clock when workers
\* acknowledge what they lease
MaxWorkTasks == 2
MaxWorkTime == 1

\* rows of tables items and edges
MaxCatalogItems == 2
MaxCatalogEdges == 1

\* rows of table items the collector creates, and the last instant of its clock
MaxDedupItems == 3
MaxDedupTime == 1

\* rows of table items when two collectors observe concurrently
MaxRaceItems == 3

\* runCollector calls the runner makes
MaxRunnerCalls == 2

\* rows of tables runs and items when runs differ in normalization version
MaxVersionRuns == 2
MaxVersionItems == 2

\* rows of table items and the last instant of the clock when items are touched
MaxTouchItems == 2
MaxTouchTime == 2

\* rows of table runs per specification
MaxRuns == 2
MaxFinishRuns == 2

\* input sets the operations draw their arguments from
Workers == {"w1", "w2"}
Priorities == {0, 10}
MaxAttemptsChoices == {0, 1, 2}
Errors == {"e1", "e2"}
Callers == {"c1", "c2"}
Migrators == {"m1", "m2"}
Uploaders == {"p1", "p2"}
UploadBodies == {<<>>, <<104>>}
StoreOutcomes == {"ok", "error"}
Keys == {"k1", "k2"}
FinishInputs == {<<"succeeded", "NULL">>, <<"failed", "e1">>}
StatsValues == {"s1", "s2"}
Putters == {"p1", "p2", "p3"}
ByteStrings == {<<104>>, <<104, 105>>}
MimeTypes == {"NULL", "text/html", "text/plain"}
Texts == {"NULL", "t1"}
Urls == {<<65>>, <<97, 47>>, <<98>>}
Bodies == {<<88>>, <<120, 32>>, <<121>>}
FetchStatuses == {200, 404}
RaceUrls == {<<65>>, <<98>>}
RaceBodies == {<<88>>}
RunnerConfigs == {<< <<65>> >>, << <<65>>, <<98>> >>}
RunnerBodies == {<<88>>, <<121>>}
NormalizationVersions == {"v1", "http_snapshot_url_v1_text_v1"}
StoreFinishInputs == {<<"succeeded", "NULL">>, <<"failed", "e1">>,
                      <<"canceled", "NULL">>}

\* ------------------------------------------------------------ null values

NoTime == -1
NoWorker == "NULL"
NoError == "NULL"
NoTask == 0
NoCall == -1
NoKey == "NULL"
NoRun == 0
Absent == "absent"
NoMime == "NULL"
NoBlob == [alg |-> "none", of |-> <<>>]
NoText == "NULL"
NoUri == <<>>
NoDigest == [alg |-> "none", of |-> <<>>]
NoItem == 0
NoEdge == 0

\* ------------------------------------------------------------------ state

VARIABLES
  now,      \* the clock of the database server
  tasks,    \* the committed rows of table tasks, in insertion order
  pc,       \* per worker: where its leaseNextTask transaction is
  txNow,    \* per worker: now() of its transaction
  leaseMs,  \* per worker: the leaseMs argument of its call
  cand,     \* per worker: the rows its statement's snapshot found eligible
  sel,      \* per worker: the row its statement locked and updated (or NoTask)
  ret,      \* per worker: what its last finished call returned (NoCall before)
  runs,     \* the committed rows of table runs, in insertion order
  rpc,      \* per caller: where its startRun call is
  rkey,     \* per caller: the idempotencyKey argument of its call
  rres,     \* per caller: how its last finished start call ended
  fres,     \* how the last finishRun call ended ("none" before the first)
  blobs,    \* the committed rows of table blobs, in insertion order
  ppc,      \* per putter: where its putBlob call is
  parg,     \* per putter: the bytes, mimeType and blobId of its call
  pres,     \* per putter: what its putBlob call returns (or threw)
  items,    \* the committed rows of table items, in insertion order
  edges,    \* the committed rows of table edges, in insertion order
  ires,     \* how the last createItem call ended
  eres,     \* how the last createEdge call ended
  outputs,  \* the rows of table run_outputs: pairs <<run id, item id>>
  logs,     \* the rows of table run_logs, in insertion order
  cpc,      \* per collector: where its collectUrl call is
  carg,     \* per collector: the runId, url and fetched body of its call, and
            \* how many items were stored when it began (read by no step)
  cloc,     \* per collector: the local variables of its collectUrl call
  cres,     \* per collector: what its last finished collectUrl call returned
  rn,       \* the collector runner: main's record and its runCollector call
  mig,      \* the migrations folder, the schema, and each migrate call
  gw        \* the gateway: the object store, its uploads, its last download

queueVars == <<tasks, pc, txNow, leaseMs, cand, sel, ret>>

runVars == <<runs, rpc, rkey, rres, fres>>

blobVars == <<blobs, ppc, parg, pres>>

catalogVars == <<items, edges, ires, eres>>

dedupVars == <<outputs, logs, cpc, carg, cloc, cres>>

lakeVars == <<blobVars, catalogVars, dedupVars, rn, mig, gw>>

vars == <<now, tasks, pc, txNow, leaseMs, cand, sel, ret, runs, rpc, rkey, rres,
          fres, blobs, ppc, parg, pres, items, edges, ires, eres, outputs,
          logs, cpc, carg, cloc, cres, rn, mig, gw>>

TaskIds == 1..Len(tasks)

\* ----------------------------------------------------------- task queue

NewTask(p, d, m) ==
  [status |-> "queued", priority |-> p, dueAt |-> d, attempts |-> 0,
   maxAttempts |-> m, lockedUntil |-> NoTime, lockedBy |-> NoWorker,
   lastError |-> NoError]

\* enqueueTask: INSERT with due_at = input.dueAt ?? new Date()
Enqueue(p, d, m) ==
  /\ tasks' = Append(tasks, NewTask(p, d, m))
  /\ UNCHANGED <<now, pc, txNow, leaseMs, cand, sel, ret, runVars, lakeVars>>

\* (mutant) the WHERE clause without due_at <= now()
Eligible_IgnoresDueAt(r, n) ==
  /\ r.status = "queued"
  /\ (r.lockedUntil = NoTime \/ r.lockedUntil < n)

\* (mutant) the WHERE clause also takes a leased row whose lease has expired
Eligible_TakesExpiredLease(r, n) ==
  /\ r.status = "queued" \/ (r.status = "leased" /\ r.lockedUntil < n)
  /\ r.dueAt <= n
  /\ (r.lockedUntil = NoTime \/ r.lockedUntil < n)

\* the WHERE clause of the CTE of leaseNextTask, on row r at now() = n
Eligible(r, n) ==
  /\ r.status = "queued"
  /\ r.dueAt <= n
  /\ (r.lockedUntil = NoTime \/ r.lockedUntil < n)

\* (mutant) the scan takes no row locks: plain SELECT, no FOR UPDATE
LockedByOther_NoRowLock(t, w) ==
  FALSE

\* row t is locked by an open lease transaction other than w's
LockedByOther(t, w) ==
  \E v \in Workers \ {w} : pc[v] = "locked" /\ sel[v] = t

RowLocked(t) ==
  \E v \in Workers : pc[v] = "locked" /\ sel[v] = t

\* (mutant) ORDER BY priority ASC, due_at ASC
SortsBefore_PriorityAscending(u, t) ==
  \/ tasks[u].priority < tasks[t].priority
  \/ tasks[u].priority = tasks[t].priority /\ tasks[u].dueAt < tasks[t].dueAt

\* ORDER BY priority DESC, due_at ASC: u sorts strictly before t
SortsBefore(u, t) ==
  \/ tasks[u].priority > tasks[t].priority
  \/ tasks[u].priority = tasks[t].priority /\ tasks[u].dueAt < tasks[t].dueAt

\* the rows of S no other row of S sorts before (LIMIT 1 takes one of them)
FirstRows(S) ==
  {t \in S : \A u \in S : ~SortsBefore(u, t)}

\* the rows FOR UPDATE SKIP LOCKED can lock for w: found by the snapshot,
\* not locked by another transaction, latest version still passing the WHERE
Lockable(w) ==
  {t \in cand[w] : ~LockedByOther(t, w) /\ Eligible(tasks[t], txNow[w])}

\* leaseNextTask, db.tx begins and the statement takes its snapshot
LeaseBegin(w, ms) ==
  /\ pc[w] = "idle"
  /\ pc' = [pc EXCEPT ![w] = "scan"]
  /\ txNow' = [txNow EXCEPT ![w] = now]
  /\ leaseMs' = [leaseMs EXCEPT ![w] = ms]
  /\ cand' = [cand EXCEPT ![w] = {t \in TaskIds : Eligible(tasks[t], now)}]
  /\ ret' = [ret EXCEPT ![w] = NoCall]
  /\ UNCHANGED <<now, tasks, sel, runVars, lakeVars>>

\* (mutant) FOR UPDATE without SKIP LOCKED: the scan waits at a locked row
LeaseSelect_Waits(w) ==
  /\ pc[w] = "scan"
  /\ \A t \in cand[w] : ~LockedByOther(t, w)
  /\ pc' = [pc EXCEPT ![w] = "locked"]
  /\ IF Lockable(w) = {}
       THEN sel' = [sel EXCEPT ![w] = NoTask]
       ELSE \E t \in FirstRows(Lockable(w)) : sel' = [sel EXCEPT ![w] = t]
  /\ cand' = [cand EXCEPT ![w] = {}]
  /\ UNCHANGED <<now, tasks, txNow, leaseMs, ret, runVars, lakeVars>>

\* leaseNextTask, the statement scans in order and locks at most one row
LeaseSelect(w) ==
  /\ pc[w] = "scan"
  /\ pc' = [pc EXCEPT ![w] = "locked"]
  /\ IF Lockable(w) = {}
       THEN sel' = [sel EXCEPT ![w] = NoTask]
       ELSE \E t \in FirstRows(Lockable(w)) : sel' = [sel EXCEPT ![w] = t]
  /\ cand' = [cand EXCEPT ![w] = {}]
  /\ UNCHANGED <<now, tasks, txNow, leaseMs, ret, runVars, lakeVars>>

\* (mutant) the lease is written without the status
Leased_KeepsStatus(r, w) ==
  [r EXCEPT !.lockedUntil = txNow[w] + leaseMs[w],
            !.lockedBy = w]

\* the SET clause of the UPDATE of leaseNextTask
Leased(r, w) ==
  [r EXCEPT !.status = "leased",
            !.lockedUntil = txNow[w] + leaseMs[w],
            !.lockedBy = w]

\* leaseNextTask, the transaction commits and the call returns the row
LeaseCommit(w) ==
  /\ pc[w] = "locked"
  /\ pc' = [pc EXCEPT ![w] = "idle"]
  /\ tasks' = IF sel[w] = NoTask THEN tasks
              ELSE [tasks EXCEPT ![sel[w]] = Leased(tasks[sel[w]], w)]
  /\ ret' = [ret EXCEPT ![w] = sel[w]]
  /\ sel' = [sel EXCEPT ![w] = NoTask]
  /\ txNow' = [txNow EXCEPT ![w] = NoTime]
  /\ leaseMs' = [leaseMs EXCEPT ![w] = NoTime]
  /\ UNCHANGED <<now, cand, runVars, lakeVars>>

\* markTaskRunning: UPDATE ... WHERE task_id = $1 (waits for a row lock)
MarkRunning(t) ==
  /\ t \in TaskIds
  /\ ~RowLocked(t)
  /\ tasks' = [tasks EXCEPT ![t].status = "running"]
  /\ UNCHANGED <<now, pc, txNow, leaseMs, cand, sel, ret, runVars, lakeVars>>

\* markTaskSucceeded: UPDATE ... WHERE task_id = $1
MarkSucceeded(t) ==
  /\ t \in TaskIds
  /\ ~RowLocked(t)
  /\ tasks' = [tasks EXCEPT ![t].status = "succeeded"]
  /\ UNCHANGED <<now, pc, txNow, leaseMs, cand, sel, ret, runVars, lakeVars>>

\* (mutant) dead only once attempts has passed max_attempts
Failed_OffByOne(r, e) ==
  [r EXCEPT !.status = IF r.attempts + 1 > r.maxAttempts THEN "dead" ELSE "queued",
            !.attempts = r.attempts + 1,
            !.lastError = e,
            !.lockedUntil = NoTime,
            !.lockedBy = NoWorker]

\* (mutant) dead one attempt early
Failed_DeadOneEarly(r, e) ==
  [r EXCEPT !.status = IF r.attempts + 2 >= r.maxAttempts THEN "dead" ELSE "queued",
            !.attempts = r.attempts + 1,
            !.lastError = e,
            !.lockedUntil = NoTime,
            !.lockedBy = NoWorker]

\* (mutant) a retry is pushed back: due_at = now() + 1
Failed_BacksOff(r, e) ==
  [r EXCEPT !.status = IF r.attempts + 1 >= r.maxAttempts THEN "dead" ELSE "queued",
            !.attempts = r.attempts + 1,
            !.lastError = e,
            !.lockedUntil = NoTime,
            !.lockedBy = NoWorker,
            !.dueAt = now + 1]

\* the SET clause of the UPDATE of markTaskFailed
Failed(r, e) ==
  [r EXCEPT !.status = IF r.attempts + 1 >= r.maxAttempts THEN "dead" ELSE "queued",
            !.attempts = r.attempts + 1,
            !.lastError = e,
            !.lockedUntil = NoTime,
            !.lockedBy = NoWorker]

\* markTaskFailed: UPDATE ... WHERE task_id = $1
MarkFailed(t, e) ==
  /\ t \in TaskIds
  /\ ~RowLocked(t)
  /\ tasks' = [tasks EXCEPT ![t] = Failed(tasks[t], e)]
  /\ UNCHANGED <<now, pc, txNow, leaseMs, cand, sel, ret, runVars, lakeVars>>

\* time passes
Tick ==
  /\ now' = now + 1
  /\ UNCHANGED <<queueVars, runVars, lakeVars>>

\* ------------------------------------------------------------ run ledger

RunIds == 1..Len(runs)

\* the run ids finishRun is called with: every run, and one id of no run
FinishIds == 1..(Len(runs) + 1)

\* (mutant) the lookup sees only the runs that are still running
RunsWithKey_RunningOnly(k) ==
  {r \in RunIds : runs[r].key = k /\ runs[r].status = "running"}

\* SELECT ... FROM runs WHERE idempotency_key = $1 (db.oneOrNone): the rows
\* with key k; idx_runs_idempotency_key keeps them to at most one
RunsWithKey(k) ==
  {r \in RunIds : runs[r].key = k}

\* export const NORMALIZATION_VERSION
NORMALIZATION_VERSION == "http_snapshot_url_v1_text_v1"

\* the row an INSERT INTO runs adds: status running, finished_at NULL
NewRun(k, cfg, ver) ==
  [key |-> k, normalizationVersion |-> ver, status |-> "running",
   finishedAt |-> NoTime, error |-> NoError,
   metrics |-> [configSnapshot |-> cfg, stats |-> Absent, finished |-> Absent]]

\* the unique index idx_runs_idempotency_key (keys that are not NULL)
KeyTaken(k) ==
  k # NoKey /\ \E r \in RunIds : runs[r].key = k

StartResult(kind, r) ==
  [kind |-> kind, runId |-> r]

\* startRun, the lookup; an existing run makes it throw idempotency_conflict
\* with existingRunId, and the call is over
StartLookup(c, k) ==
  /\ rpc[c] = "idle"
  /\ IF RunsWithKey(k) # {}
       THEN /\ rres' = [rres EXCEPT
                         ![c] = StartResult("idempotency_conflict",
                                            CHOOSE r \in RunsWithKey(k) : TRUE)]
            /\ UNCHANGED <<rpc, rkey>>
       ELSE /\ rpc' = [rpc EXCEPT ![c] = "insert"]
            /\ rkey' = [rkey EXCEPT ![c] = k]
            /\ rres' = [rres EXCEPT ![c] = StartResult("pending", NoRun)]
  /\ UNCHANGED <<now, queueVars, lakeVars, runs, fres>>

\* startRun, the INSERT; a key taken since the lookup violates the unique
\* index and the call fails with the database's error
StartInsert(c) ==
  /\ rpc[c] = "insert"
  /\ rpc' = [rpc EXCEPT ![c] = "idle"]
  /\ rkey' = [rkey EXCEPT ![c] = NoKey]
  /\ IF KeyTaken(rkey[c])
       THEN /\ rres' = [rres EXCEPT ![c] = StartResult("unique_violation", NoRun)]
            /\ UNCHANGED runs
       ELSE /\ runs' = Append(runs, NewRun(rkey[c], "cfg", NORMALIZATION_VERSION))
            /\ rres' = [rres EXCEPT ![c] = StartResult("started", Len(runs) + 1)]
  /\ UNCHANGED <<now, queueVars, lakeVars, fres>>

\* createRun of store.runs.ts: the INSERT alone, metrics left at its default
CreateRun(k, ver) ==
  /\ ~KeyTaken(k)
  /\ runs' = Append(runs, NewRun(k, Absent, ver))
  /\ UNCHANGED <<now, queueVars, lakeVars, rpc, rkey, rres, fres>>

\* (mutant) metrics overwritten with the stats instead of merged
Finished_ReplacesMetrics(r, st, stats, err) ==
  [r EXCEPT !.status = st, !.finishedAt = now, !.error = err,
            !.metrics = [configSnapshot |-> Absent, stats |-> stats,
                         finished |-> "true"]]

\* the SET clause of the UPDATE of finishRun of collect/runner.ts
Finished(r, st, stats, err) ==
  [r EXCEPT !.status = st, !.finishedAt = now, !.error = err,
            !.metrics.stats = stats, !.metrics.finished = "true"]

\* finishRun of collect/runner.ts: UPDATE runs ... WHERE run_id = $1 through
\* db.none, which resolves whether the UPDATE matched a row or not
FinishRun(id, st, stats, err) ==
  /\ runs' = IF id \in RunIds
               THEN [runs EXCEPT ![id] = Finished(runs[id], st, stats, err)]
               ELSE runs
  /\ fres' = "resolved"
  /\ UNCHANGED <<now, queueVars, lakeVars, rpc, rkey, rres>>

\* (mutant) the UPDATE without finished_at = now()
StoreFinished_NoFinishedAt(r, st, err) ==
  [r EXCEPT !.status = st, !.error = err]

\* the SET clause of the UPDATE of finishRun of store.runs.ts
StoreFinished(r, st, err) ==
  [r EXCEPT !.status = st, !.finishedAt = now, !.error = err]

\* finishRun of store.runs.ts: UPDATE runs ... WHERE run_id = $1 (db.none)
StoreFinishRun(id, st, err) ==
  /\ runs' = IF id \in RunIds
               THEN [runs EXCEPT ![id] = StoreFinished(runs[id], st, err)]
               ELSE runs
  /\ fres' = "resolved"
  /\ UNCHANGED <<now, queueVars, lakeVars, rpc, rkey, rres>>

\* ------------------------------------------------------------- blob store

\* sha256(bytes): the content digest "sha256:<hex>", a function of the bytes
sha256(bytes) ==
  [alg |-> "sha256", of |-> bytes]

BlobRows == 1..Len(blobs)

\* the primary key of table blobs: a row with blob_id = id is stored
BlobExists(id) ==
  \E i \in BlobRows : blobs[i].blobId = id

\* a putter that is not in a call has no arguments
NoPut == <<>>

PutResult(kind, id, ins) ==
  [kind |-> kind, blobId |-> id, inserted |-> ins]

\* putBlob has not returned (yet)
NoPutResult == [kind |-> "none"]

\* putBlob is called: blobId = sha256(bytes)
PutBegin(p, bytes, mime) ==
  /\ ppc[p] = "idle"
  /\ ppc' = [ppc EXCEPT ![p] = "insert"]
  /\ parg' = [parg EXCEPT ![p] = [bytes |-> bytes, mimeType |-> mime,
                                  blobId |-> sha256(bytes)]]
  /\ pres' = [pres EXCEPT ![p] = NoPutResult]
  /\ UNCHANGED <<now, queueVars, gw, mig, runVars, rn, catalogVars, dedupVars, blobs>>

\* (mutant) INSERT ... ON CONFLICT (blob_id) DO UPDATE SET mime_type
PutInsert_Upsert(p) ==
  /\ ppc[p] = "insert"
  /\ ppc' = [ppc EXCEPT ![p] = "return"]
  /\ IF BlobExists(parg[p].blobId)
       THEN /\ blobs' = [i \in BlobRows |->
                          IF blobs[i].blobId = parg[p].blobId
                            THEN [blobs[i] EXCEPT !.mimeType = parg[p].mimeType]
                            ELSE blobs[i]]
            /\ pres' = [pres EXCEPT ![p] = PutResult("ok", parg[p].blobId, FALSE)]
       ELSE /\ blobs' = Append(blobs, [blobId |-> parg[p].blobId,
                                       sizeBytes |-> Len(parg[p].bytes),
                                       mimeType |-> parg[p].mimeType])
            /\ pres' = [pres EXCEPT ![p] = PutResult("ok", parg[p].blobId, TRUE)]
  /\ UNCHANGED <<now, queueVars, gw, mig, runVars, rn, catalogVars, dedupVars, parg>>

\* (mutant) the unique violation is not caught
PutInsert_Rethrows(p) ==
  /\ ppc[p] = "insert"
  /\ ppc' = [ppc EXCEPT ![p] = "return"]
  /\ IF BlobExists(parg[p].blobId)
       THEN /\ blobs' = blobs
            /\ pres' = [pres EXCEPT ![p] = PutResult("unique_violation", NoBlob, FALSE)]
       ELSE /\ blobs' = Append(blobs, [blobId |-> parg[p].blobId,
                                       sizeBytes |-> Len(parg[p].bytes),
                                       mimeType |-> parg[p].mimeType])
            /\ pres' = [pres EXCEPT ![p] = PutResult("ok", parg[p].blobId, TRUE)]
  /\ UNCHANGED <<now, queueVars, gw, mig, runVars, rn, catalogVars, dedupVars, parg>>

\* putBlob, the INSERT INTO blobs: the row is added and inserted is true, or
\* the primary key rejects it (23505), which is caught: inserted is false
PutInsert(p) ==
  /\ ppc[p] = "insert"
  /\ ppc' = [ppc EXCEPT ![p] = "return"]
  /\ IF BlobExists(parg[p].blobId)
       THEN /\ blobs' = blobs
            /\ pres' = [pres EXCEPT ![p] = PutResult("ok", parg[p].blobId, FALSE)]
       ELSE /\ blobs' = Append(blobs, [blobId |-> parg[p].blobId,
                                       sizeBytes |-> Len(parg[p].bytes),
                                       mimeType |-> parg[p].mimeType])
            /\ pres' = [pres EXCEPT ![p] = PutResult("ok", parg[p].blobId, TRUE)]
  /\ UNCHANGED <<now, queueVars, gw, mig, runVars, rn, catalogVars, dedupVars, parg>>

\* putBlob returns { blobId, inserted } to its caller
PutReturn(p) ==
  /\ ppc[p] = "return"
  /\ ppc' = [ppc EXCEPT ![p] = "idle"]
  /\ parg' = [parg EXCEPT ![p] = NoPut]
  /\ UNCHANGED <<now, queueVars, gw, mig, runVars, rn, catalogVars, dedupVars, blobs, pres>>

\* ------------------------------------------- item catalog, lineage graph

Collectors == {"k1", "k2"}

\* a collector that is not in a call has no arguments, no locals, no result
NoObservation == <<>>

NoLocals == <<>>

NoResult == [kind |-> "none"]

ItemIds == 1..Len(items)

\* the item ids createEdge is called with: every item, and one id of no item
ItemRefs == 1..(Len(items) + 1)

\* the blob ids createItem is called with: none, or the digest of some bytes
BlobRefs == {NoBlob} \cup {sha256(b) : b \in ByteStrings}

\* (mutant) the CHECK rejects two payloads but not a missing one
OnePayload_AtMostOne(blobId, text) ==
  ~(blobId # NoBlob /\ text # NoText)

\* CONSTRAINT items_one_payload CHECK (...)
OnePayload(blobId, text) ==
  \/ blobId # NoBlob /\ text = NoText
  \/ blobId = NoBlob /\ text # NoText

\* how INSERT INTO items ends: the CHECK constraint of the row, then the
\* foreign key blob_id REFERENCES blobs(blob_id)
ItemInsertOutcome(blobId, text) ==
  IF ~OnePayload(blobId, text) THEN "check_violation"
  ELSE IF blobId # NoBlob /\ ~BlobExists(blobId) THEN "foreign_key_violation"
  ELSE "ok"

NewItem(uri, digest, blobId, text) ==
  [canonicalUri |-> uri, contentSha256 |-> digest, blobId |-> blobId,
   textContent |-> text, createdAt |-> now, updatedAt |-> now]

ItemResult(kind, id) ==
  [kind |-> kind, itemId |-> id]

\* createItem: one INSERT INTO items ... RETURNING *
CreateItem(uri, digest, blobId, text) ==
  /\ IF ItemInsertOutcome(blobId, text) = "ok"
       THEN /\ items' = Append(items, NewItem(uri, digest, blobId, text))
            /\ ires' = ItemResult("ok", Len(items) + 1)
       ELSE /\ items' = items
            /\ ires' = ItemResult(ItemInsertOutcome(blobId, text), NoItem)
  /\ UNCHANGED <<now, queueVars, gw, mig, runVars, rn, blobVars, dedupVars, edges, eres>>

\* (mutant) SET updated_at = now(), created_at = now()
Touched_AlsoCreatedAt(r, n) ==
  [r EXCEPT !.updatedAt = n, !.createdAt = n]

\* the SET clause of the UPDATE of touchUpdatedAt
Touched(r, n) ==
  [r EXCEPT !.updatedAt = n]

\* touchUpdatedAt: UPDATE items ... WHERE item_id = $1; an id of no row
\* updates nothing and db.none returns
TouchUpdatedAt(id) ==
  /\ items' = [i \in ItemIds |-> IF i = id THEN Touched(items[i], now)
                                           ELSE items[i]]
  /\ UNCHANGED <<now, queueVars, gw, mig, runVars, rn, blobVars, dedupVars, edges, ires,
                 eres>>

\* (mutant) table edges without its foreign keys
ItemExists_NoForeignKey(id) ==
  TRUE

\* from_item_id / to_item_id REFERENCES items(item_id)
ItemExists(id) ==
  id \in ItemIds

\* meta = {}: no key is present
NoMeta ==
  [reason |-> Absent, originalCanonicalUri |-> NoUri, newCanonicalUri |-> NoUri,
   conflictResolved |-> FALSE, canonicalUriMatch |-> NoItem,
   contentSha256Match |-> NoItem, selected |-> Absent]

EdgeResult(kind, id) ==
  [kind |-> kind, edgeId |-> id]

\* how INSERT INTO edges ends
EdgeInsertOutcome(from, to) ==
  IF ItemExists(from) /\ ItemExists(to) THEN "ok" ELSE "foreign_key_violation"

NewEdge(from, to, rel, meta) ==
  [fromItemId |-> from, toItemId |-> to, rel |-> rel, meta |-> meta]

\* createEdge: one INSERT INTO edges ... RETURNING *
CreateEdge(from, to, rel, meta) ==
  /\ IF EdgeInsertOutcome(from, to) = "ok"
       THEN /\ edges' = Append(edges, NewEdge(from, to, rel, meta))
            /\ eres' = EdgeResult("ok", Len(edges) + 1)
       ELSE /\ edges' = edges
            /\ eres' = EdgeResult("foreign_key_violation", NoEdge)
  /\ UNCHANGED <<now, queueVars, gw, mig, runVars, rn, blobVars, dedupVars, items, ires>>

\* ----------------------------------------------------- http snapshot dedup

RECURSIVE LowerCase(_)
\* toLowerCase on character codes
LowerCase(str) ==
  IF str = <<>> THEN <<>>
  ELSE <<IF Head(str) \in 65..90 THEN Head(str) + 32 ELSE Head(str)>>
         \o LowerCase(Tail(str))

\* normalizeUrl on a url that is its host and path: the host in lower case,
\* the trailing slash of the path removed
normalizeUrl(url) ==
  LET lower == LowerCase(url) IN
    IF lower # <<>> /\ lower[Len(lower)] = 47
      THEN SubSeq(lower, 1, Len(lower) - 1)
      ELSE lower

RECURSIVE CollapseSpaces(_)
\* text.replace(/\s+/g, ' ')
CollapseSpaces(str) ==
  IF Len(str) < 2 THEN str
  ELSE IF Head(str) = 32 /\ str[2] = 32 THEN CollapseSpaces(Tail(str))
  ELSE <<Head(str)>> \o CollapseSpaces(Tail(str))

\* text.trim()
Trim(str) ==
  LET front == IF str # <<>> /\ Head(str) = 32 THEN Tail(str) ELSE str IN
    IF front # <<>> /\ front[Len(front)] = 32
      THEN SubSeq(front, 1, Len(front) - 1)
      ELSE front

\* normalizeText on a body without markup: whitespace collapsed, trimmed,
\* lower case
normalizeText(input) ==
  LowerCase(Trim(CollapseSpaces(input)))

\* computeContentSha256
computeContentSha256(input) ==
  sha256(normalizeText(input))

\* the rows a find query returns first: ORDER BY created_at DESC leaves the
\* order of rows with equal created_at open, and the sort of collectUrl keeps
\* it, so element [0] is any of the most recent rows of S
MostRecent(S) ==
  {i \in S : \A j \in S : items[j].createdAt <= items[i].createdAt}

\* findItemsByCanonicalUri, findItemsByContentSha256
ItemsByCanonicalUri(uri) ==
  {i \in ItemIds : items[i].canonicalUri = uri}

ItemsByContentSha256(digest) ==
  {i \in ItemIds : items[i].contentSha256 = digest}

CollectResult(kind, id, isNew, superseded) ==
  [kind |-> kind, itemId |-> id, isNew |-> isNew, supersededItemId |-> superseded]

\* the row appendRunLog inserts; itemId and existingItemId are the item ids
\* its data names
RunLog(runId, level, message, itemId, existing) ==
  [runId |-> runId, level |-> level, message |-> message, itemId |-> itemId,
   existingItemId |-> existing]

\* collectUrl is called, normalizes the url and fetches it; a status outside
\* 200..299 makes it throw
CollectBegin(k, runId, url, status, body) ==
  /\ cpc[k] = "idle"
  /\ IF status < 200 \/ status >= 300
       THEN /\ cres' = [cres EXCEPT ![k] = [kind |-> "http_error"]]
            /\ UNCHANGED <<cpc, carg, cloc>>
       ELSE /\ cpc' = [cpc EXCEPT ![k] = "putBlob"]
            /\ carg' = [carg EXCEPT ![k] = [runId |-> runId, url |-> url,
                                         body |-> body,
                                         stored |-> Len(items)]]
            /\ cloc' = [cloc EXCEPT ![k] =
                         [canonicalUri |-> normalizeUrl(url), blobId |-> NoBlob,
                          inserted |-> FALSE, contentSha256 |-> NoDigest,
                          uriMatch |-> NoItem, hashMatch |-> NoItem,
                          existingItem |-> NoItem, conflictResolved |-> FALSE,
                          selectedMatch |-> Absent, itemId |-> NoItem]]
            /\ cres' = [cres EXCEPT ![k] = NoResult]
  /\ UNCHANGED <<now, queueVars, gw, mig, runVars, rn, blobVars, catalogVars, outputs, logs>>

\* collectUrl, putBlob of the body, then computeContentSha256
CollectPutBlob(k) ==
  /\ cpc[k] = "putBlob"
  /\ cpc' = [cpc EXCEPT ![k] = "findUri"]
  /\ LET id == sha256(carg[k].body) IN
       /\ blobs' = IF BlobExists(id) THEN blobs
                    ELSE Append(blobs, [blobId |-> id,
                                        sizeBytes |-> Len(carg[k].body),
                                        mimeType |-> "text/html"])
       /\ cloc' = [cloc EXCEPT ![k].blobId = id,
                               ![k].inserted = ~BlobExists(id),
                               ![k].contentSha256 =
                                 computeContentSha256(carg[k].body)]
  /\ UNCHANGED <<now, queueVars, gw, mig, runVars, rn, catalogVars, ppc, parg, pres,
                 outputs, logs, carg, cres>>

\* collectUrl, findItemsByCanonicalUri and the most recent of its rows
CollectFindUri(k) ==
  /\ cpc[k] = "findUri"
  /\ cpc' = [cpc EXCEPT ![k] = "findHash"]
  /\ LET existingByUri == IF cloc[k].canonicalUri # <<>>
                            THEN ItemsByCanonicalUri(cloc[k].canonicalUri)
                            ELSE {} IN
       IF existingByUri = {}
         THEN cloc' = [cloc EXCEPT ![k].uriMatch = NoItem]
         ELSE \E i \in MostRecent(existingByUri) :
                cloc' = [cloc EXCEPT ![k].uriMatch = i]
  /\ UNCHANGED <<now, queueVars, gw, mig, runVars, rn, blobVars, catalogVars, outputs, logs,
                 carg, cres>>

\* (mutant) on a conflict the canonical_uri match is taken
Resolved_UriWins(loc, hashMatch) ==
  IF hashMatch # NoItem /\ loc.uriMatch # NoItem /\ hashMatch # loc.uriMatch
    THEN [loc EXCEPT !.hashMatch = hashMatch, !.existingItem = loc.uriMatch,
                     !.conflictResolved = TRUE, !.selectedMatch = "canonical_uri"]
  ELSE IF hashMatch # NoItem
    THEN [loc EXCEPT !.hashMatch = hashMatch, !.existingItem = hashMatch,
                     !.selectedMatch = "content_sha256"]
  ELSE IF loc.uriMatch # NoItem
    THEN [loc EXCEPT !.hashMatch = hashMatch, !.existingItem = loc.uriMatch,
                     !.selectedMatch = "canonical_uri"]
  ELSE [loc EXCEPT !.hashMatch = hashMatch]

\* (mutant) a canonical_uri match is recorded under the reason content_sha256
Resolved_DigestReasonAlways(loc, hashMatch) ==
  IF hashMatch # NoItem /\ loc.uriMatch # NoItem /\ hashMatch # loc.uriMatch
    THEN [loc EXCEPT !.hashMatch = hashMatch, !.existingItem = hashMatch,
                     !.conflictResolved = TRUE, !.selectedMatch = "content_sha256"]
  ELSE IF hashMatch # NoItem
    THEN [loc EXCEPT !.hashMatch = hashMatch, !.existingItem = hashMatch,
                     !.selectedMatch = "content_sha256"]
  ELSE IF loc.uriMatch # NoItem
    THEN [loc EXCEPT !.hashMatch = hashMatch, !.existingItem = loc.uriMatch,
                     !.selectedMatch = "content_sha256"]
  ELSE [loc EXCEPT !.hashMatch = hashMatch]

\* the conflict resolution of collectUrl: the locals once hashMatch is known
Resolved(loc, hashMatch) ==
  IF hashMatch # NoItem /\ loc.uriMatch # NoItem /\ hashMatch # loc.uriMatch
    THEN [loc EXCEPT !.hashMatch = hashMatch, !.existingItem = hashMatch,
                     !.conflictResolved = TRUE, !.selectedMatch = "content_sha256"]
  ELSE IF hashMatch # NoItem
    THEN [loc EXCEPT !.hashMatch = hashMatch, !.existingItem = hashMatch,
                     !.selectedMatch = "content_sha256"]
  ELSE IF loc.uriMatch # NoItem
    THEN [loc EXCEPT !.hashMatch = hashMatch, !.existingItem = loc.uriMatch,
                     !.selectedMatch = "canonical_uri"]
  ELSE [loc EXCEPT !.hashMatch = hashMatch]

\* collectUrl, findItemsByContentSha256, the most recent of its rows, and
\* the conflict resolution
CollectFindHash(k) ==
  /\ cpc[k] = "findHash"
  /\ cpc' = [cpc EXCEPT ![k] = "createItem"]
  /\ LET existingByHash == ItemsByContentSha256(cloc[k].contentSha256) IN
       IF existingByHash = {}
         THEN cloc' = [cloc EXCEPT ![k] = Resolved(cloc[k], NoItem)]
         ELSE \E i \in MostRecent(existingByHash) :
                cloc' = [cloc EXCEPT ![k] = Resolved(cloc[k], i)]
  /\ UNCHANGED <<now, queueVars, gw, mig, runVars, rn, blobVars, catalogVars, outputs, logs,
                 carg, cres>>

\* (mutant) a match suppresses the insert: the predecessor is returned
CollectCreateItem_SkipsOnMatch(k) ==
  /\ cpc[k] = "createItem"
  /\ cpc' = [cpc EXCEPT ![k] = "addRunOutput"]
  /\ IF cloc[k].existingItem # NoItem
       THEN /\ items' = items
            /\ cloc' = [cloc EXCEPT ![k].itemId = cloc[k].existingItem]
       ELSE /\ items' = Append(items, NewItem(cloc[k].canonicalUri,
                                              cloc[k].contentSha256,
                                              cloc[k].blobId, NoText))
            /\ cloc' = [cloc EXCEPT ![k].itemId = Len(items) + 1]
  /\ UNCHANGED <<now, queueVars, gw, mig, runVars, rn, blobVars, edges, ires, eres, outputs,
                 logs, carg, cres>>

\* (mutant) the insert does nothing when a row with the observation's uri and
\* digest is stored already, and returns that row
CollectCreateItem_Upsert(k) ==
  /\ cpc[k] = "createItem"
  /\ cpc' = [cpc EXCEPT ![k] = "addRunOutput"]
  /\ LET same == {i \in ItemIds :
                   /\ items[i].canonicalUri = cloc[k].canonicalUri
                   /\ items[i].contentSha256 = cloc[k].contentSha256} IN
       IF same # {}
         THEN /\ items' = items
              /\ cloc' = [cloc EXCEPT ![k].itemId = CHOOSE i \in same : TRUE]
         ELSE /\ items' = Append(items, NewItem(cloc[k].canonicalUri,
                                                cloc[k].contentSha256,
                                                cloc[k].blobId, NoText))
              /\ cloc' = [cloc EXCEPT ![k].itemId = Len(items) + 1]
  /\ UNCHANGED <<now, queueVars, gw, mig, runVars, rn, blobVars, edges, ires, eres, outputs,
                 logs, carg, cres>>

\* collectUrl, createItem of the new item (its blob was put by this call)
CollectCreateItem(k) ==
  /\ cpc[k] = "createItem"
  /\ cpc' = [cpc EXCEPT ![k] = "addRunOutput"]
  /\ items' = Append(items, NewItem(cloc[k].canonicalUri, cloc[k].contentSha256,
                                    cloc[k].blobId, NoText))
  /\ cloc' = [cloc EXCEPT ![k].itemId = Len(items) + 1]
  /\ UNCHANGED <<now, queueVars, gw, mig, runVars, rn, blobVars, edges, ires, eres, outputs,
                 logs, carg, cres>>

\* (mutant) only an item without predecessor is registered as run output
CollectAddRunOutput_OnlyNew(k) ==
  /\ cpc[k] = "addRunOutput"
  /\ cpc' = [cpc EXCEPT ![k] =
               IF cloc[k].existingItem # NoItem
                  /\ cloc[k].existingItem # cloc[k].itemId
                 THEN "createEdge" ELSE "logNew"]
  /\ outputs' = IF cloc[k].existingItem # NoItem THEN outputs
                ELSE outputs \cup {<<carg[k].runId, cloc[k].itemId>>}
  /\ UNCHANGED <<now, queueVars, gw, mig, runVars, rn, blobVars, catalogVars, logs, carg,
                 cloc, cres>>

\* collectUrl, addRunOutput, then the test that decides whether to link
CollectAddRunOutput(k) ==
  /\ cpc[k] = "addRunOutput"
  /\ cpc' = [cpc EXCEPT ![k] =
               IF cloc[k].existingItem # NoItem
                  /\ cloc[k].existingItem # cloc[k].itemId
                 THEN "createEdge" ELSE "logNew"]
  /\ outputs' = outputs \cup {<<carg[k].runId, cloc[k].itemId>>}
  /\ UNCHANGED <<now, queueVars, gw, mig, runVars, rn, blobVars, catalogVars, logs, carg,
                 cloc, cres>>

\* (mutant) the conflict fields are never added to the metadata
EdgeMeta_NoConflictFields(loc) ==
  [reason |-> loc.selectedMatch,
   originalCanonicalUri |-> items[loc.existingItem].canonicalUri,
   newCanonicalUri |-> loc.canonicalUri,
   conflictResolved |-> FALSE, canonicalUriMatch |-> NoItem,
   contentSha256Match |-> NoItem, selected |-> Absent]

\* the edge metadata collectUrl builds
EdgeMeta(loc) ==
  [reason |-> loc.selectedMatch,
   originalCanonicalUri |-> items[loc.existingItem].canonicalUri,
   newCanonicalUri |-> loc.canonicalUri,
   conflictResolved |-> loc.conflictResolved,
   canonicalUriMatch |-> IF loc.conflictResolved THEN loc.uriMatch ELSE NoItem,
   contentSha256Match |-> IF loc.conflictResolved THEN loc.hashMatch ELSE NoItem,
   selected |-> IF loc.conflictResolved THEN loc.selectedMatch ELSE Absent]

\* (mutant) the edge is created from the new item to its predecessor
CollectCreateEdge_Reversed(k) ==
  /\ cpc[k] = "createEdge"
  /\ cpc' = [cpc EXCEPT ![k] = "logLink"]
  /\ edges' = Append(edges, NewEdge(cloc[k].itemId, cloc[k].existingItem,
                                    "supersedes", EdgeMeta(cloc[k])))
  /\ UNCHANGED <<now, queueVars, gw, mig, runVars, rn, blobVars, items, ires, eres,
                 outputs, logs, carg, cloc, cres>>

\* collectUrl, createEdge existingItem -> item, rel supersedes
CollectCreateEdge(k) ==
  /\ cpc[k] = "createEdge"
  /\ cpc' = [cpc EXCEPT ![k] = "logLink"]
  /\ edges' = Append(edges, NewEdge(cloc[k].existingItem, cloc[k].itemId,
                                    "supersedes", EdgeMeta(cloc[k])))
  /\ UNCHANGED <<now, queueVars, gw, mig, runVars, rn, blobVars, items, ires, eres, outputs,
                 logs, carg, cloc, cres>>

\* collectUrl, appendRunLog (warn on a conflict, info otherwise) and the
\* return of { isNew: false, supersededItemId }
CollectLogLink(k) ==
  /\ cpc[k] = "logLink"
  /\ cpc' = [cpc EXCEPT ![k] = "idle"]
  /\ logs' = Append(logs, RunLog(carg[k].runId,
                                  IF cloc[k].conflictResolved
                                    THEN "warn" ELSE "info",
                                  IF cloc[k].conflictResolved
                                    THEN "Conflict resolved"
                                    ELSE "Found existing item",
                                  cloc[k].itemId, cloc[k].existingItem))
  /\ cres' = [cres EXCEPT ![k] = CollectResult("ok", cloc[k].itemId, FALSE,
                                               cloc[k].existingItem)]
  /\ carg' = [carg EXCEPT ![k] = NoObservation]
  /\ cloc' = [cloc EXCEPT ![k] = NoLocals]
  /\ UNCHANGED <<now, queueVars, gw, mig, runVars, rn, blobVars, catalogVars, outputs>>

\* collectUrl, appendRunLog info and the return of { isNew: true }
CollectLogNew(k) ==
  /\ cpc[k] = "logNew"
  /\ cpc' = [cpc EXCEPT ![k] = "idle"]
  /\ logs' = Append(logs, RunLog(carg[k].runId, "info", "Created new item",
                                  cloc[k].itemId, NoItem))
  /\ cres' = [cres EXCEPT ![k] = CollectResult("ok", cloc[k].itemId, TRUE, NoItem)]
  /\ carg' = [carg EXCEPT ![k] = NoObservation]
  /\ cloc' = [cloc EXCEPT ![k] = NoLocals]
  /\ UNCHANGED <<now, queueVars, gw, mig, runVars, rn, blobVars, catalogVars, outputs>>

\* ------------------------------------------------------- collector runner

\* main is in no runCollector call
NoRunnerCall == <<>>

\* generateIdempotencyKey: the date, the hour and hashConfig of the urls;
\* within one hour, one key for each of the configs of RunnerConfigs
generateIdempotencyKey(config) ==
  IF Len(config) = 1 THEN "k1" ELSE "k2"

\* main calls runCollector(db, collector, args) without --dry-run; the call
\* computes the idempotency key and calls startCollectorRun
RunCollectorBegin(config) ==
  /\ rn.pc = "idle"
  /\ rn' = [rn EXCEPT !.pc = "startRun",
                      !.call = [key |-> generateIdempotencyKey(config),
                                urls |-> config, runId |-> NoRun,
                                results |-> <<>>, hasErrors |-> FALSE,
                                urlsAttempted |-> 0, urlsSucceeded |-> 0,
                                itemsCreated |-> 0, error |-> NoError]]
  /\ rres' = [rres EXCEPT !["c1"] = StartResult("none", NoRun)]
  /\ UNCHANGED <<now, queueVars, gw, mig, blobVars, catalogVars, dedupVars, runs, rpc,
                 rkey, fres>>

\* (mutant) an idempotency conflict is reported as a failed collector
RunCollectorStarted_ConflictFails ==
  /\ rn.pc = "startRun"
  /\ rpc["c1"] = "idle"
  /\ rres["c1"].kind \in {"started", "idempotency_conflict", "unique_violation"}
  /\ rn' = IF rres["c1"].kind = "started"
             THEN [rn EXCEPT !.pc = "collectHttpSnapshot",
                             !.call.runId = rres["c1"].runId,
                             !.call.urlsAttempted = Len(rn.call.urls)]
             ELSE [rn EXCEPT !.pc = "idle", !.call = NoRunnerCall,
                             !.results = Append(@, "failed"),
                             !.hasFailures = TRUE]
  /\ UNCHANGED <<now, queueVars, gw, mig, runVars, blobVars, catalogVars, dedupVars>>

\* runCollector once startCollectorRun has settled: the run id is kept; an
\* error of type idempotency_conflict makes the call return status skipped;
\* any other error is rethrown, and main records a failed collector
RunCollectorStarted ==
  /\ rn.pc = "startRun"
  /\ rpc["c1"] = "idle"
  /\ rres["c1"].kind \in {"started", "idempotency_conflict", "unique_violation"}
  /\ rn' = IF rres["c1"].kind = "started"
             THEN [rn EXCEPT !.pc = "collectHttpSnapshot",
                             !.call.runId = rres["c1"].runId,
                             !.call.urlsAttempted = Len(rn.call.urls)]
           ELSE IF rres["c1"].kind = "idempotency_conflict"
             THEN [rn EXCEPT !.pc = "idle", !.call = NoRunnerCall,
                             !.results = Append(@, "skipped")]
             ELSE [rn EXCEPT !.pc = "idle", !.call = NoRunnerCall,
                             !.results = Append(@, "failed"),
                             !.hasFailures = TRUE]
  /\ UNCHANGED <<now, queueVars, gw, mig, runVars, blobVars, catalogVars, dedupVars>>

\* collectHttpSnapshot is called: the log entry of its start, then the loop
CollectHttpSnapshotBegin ==
  /\ rn.pc = "collectHttpSnapshot"
  /\ rn' = [rn EXCEPT !.pc = "collectUrl"]
  /\ logs' = Append(logs, RunLog(rn.call.runId, "info",
                                 "Starting http_snapshot collector",
                                 NoItem, NoItem))
  /\ cres' = [cres EXCEPT !["k1"] = NoResult]
  /\ UNCHANGED <<now, queueVars, gw, mig, runVars, blobVars, catalogVars, outputs, cpc,
                 carg, cloc>>

\* the loop of collectHttpSnapshot is at a url and collectUrl is not called yet
AtNextUrl ==
  /\ rn.pc = "collectUrl"
  /\ rn.call.urls # <<>>
  /\ cpc["k1"] = "idle"
  /\ cres["k1"].kind = "none"

\* the loop of collectHttpSnapshot, collectUrl returned: results.push(result)
CollectHttpSnapshotCollected ==
  /\ rn.pc = "collectUrl"
  /\ cpc["k1"] = "idle"
  /\ cres["k1"].kind = "ok"
  /\ rn' = [rn EXCEPT !.call.urls = Tail(@),
                      !.call.results = Append(@, [itemId |-> cres["k1"].itemId,
                                                  isNew |-> cres["k1"].isNew])]
  /\ cres' = [cres EXCEPT !["k1"] = NoResult]
  /\ UNCHANGED <<now, queueVars, gw, mig, runVars, blobVars, catalogVars, outputs, logs,
                 cpc, carg, cloc>>

\* the loop of collectHttpSnapshot, collectUrl threw: the error is logged and
\* thrown again, which ends the loop and loses the results so far
CollectHttpSnapshotFailed ==
  /\ rn.pc = "collectUrl"
  /\ cpc["k1"] = "idle"
  /\ cres["k1"].kind = "http_error"
  /\ logs' = Append(logs, RunLog(rn.call.runId, "error", "Failed to collect",
                                 NoItem, NoItem))
  /\ rn' = [rn EXCEPT !.pc = "caught", !.call.urls = Tail(@),
                      !.call.results = <<>>, !.call.error = "HTTP error"]
  /\ cres' = [cres EXCEPT !["k1"] = NoResult]
  /\ UNCHANGED <<now, queueVars, gw, mig, runVars, blobVars, catalogVars, outputs, cpc,
                 carg, cloc>>

\* runCollector catches what collectHttpSnapshot threw: hasErrors, the error
\* kept for the summary, an error log entry; then it calls finishCollectorRun
RunCollectorCaught ==
  /\ rn.pc = "caught"
  /\ rn' = [rn EXCEPT !.pc = "finishRun", !.call.hasErrors = TRUE]
  /\ logs' = Append(logs, RunLog(rn.call.runId, "error",
                                 "Collector execution failed", NoItem, NoItem))
  /\ fres' = "none"
  /\ UNCHANGED <<now, queueVars, gw, mig, blobVars, catalogVars, runs, rpc, rkey, rres,
                 outputs, cpc, carg, cloc, cres>>

\* collectHttpSnapshot after the last url: the log entry of its end, and the
\* results are returned
CollectHttpSnapshotCompleted ==
  /\ rn.pc = "collectUrl"
  /\ rn.call.urls = <<>>
  /\ cres["k1"].kind = "none"
  /\ rn' = [rn EXCEPT !.pc = "processResults"]
  /\ logs' = Append(logs, RunLog(rn.call.runId, "info",
                                 "Completed http_snapshot collector",
                                 NoItem, NoItem))
  /\ UNCHANGED <<now, queueVars, gw, mig, runVars, blobVars, catalogVars, outputs, cpc,
                 carg, cloc, cres>>

\* the log entries runCollector writes for the results, in their order
CollectedLogs(runId, results) ==
  [i \in 1..Len(results) |->
     RunLog(runId, "info", "Collected", results[i].itemId, NoItem)]

\* runCollector counts and logs the results, then calls finishCollectorRun
RunCollectorProcessResults ==
  /\ rn.pc = "processResults"
  /\ rn' = [rn EXCEPT
              !.pc = "finishRun",
              !.call.urlsSucceeded = Len(rn.call.results),
              !.call.itemsCreated =
                 Cardinality({i \in 1..Len(rn.call.results) :
                                rn.call.results[i].isNew})]
  /\ logs' = logs \o CollectedLogs(rn.call.runId, rn.call.results)
  /\ fres' = "none"
  /\ UNCHANGED <<now, queueVars, gw, mig, blobVars, catalogVars, runs, rpc, rkey, rres,
                 outputs, cpc, carg, cloc, cres>>

\* the status runCollector finishes its run with
RunnerStatus ==
  IF rn.call.hasErrors THEN "failed" ELSE "succeeded"

\* the stats runCollector finishes its run with
RunnerStats ==
  [urlsAttempted |-> rn.call.urlsAttempted,
   urlsSucceeded |-> rn.call.urlsSucceeded,
   itemsCreated |-> rn.call.itemsCreated,
   bytesDownloaded |-> rn.call.urlsSucceeded * 1024]

\* runCollector is about to call finishCollectorRun
AtFinishRun ==
  rn.pc = "finishRun" /\ fres = "none"

\* runCollector returns its result once finishCollectorRun has resolved; main
\* pushes it and notes a failed collector
RunCollectorReturn ==
  /\ rn.pc = "finishRun"
  /\ fres = "resolved"
  /\ rn' = [rn EXCEPT !.pc = "idle", !.call = NoRunnerCall,
                      !.results = Append(@, RunnerStatus),
                      !.hasFailures = @ \/ RunnerStatus = "failed"]
  /\ UNCHANGED <<now, queueVars, gw, mig, runVars, blobVars, catalogVars, dedupVars>>

\* ------------------------------------------------------- schema migrations

\* the suffix ".sql" as character codes
DotSql == <<46, 115, 113, 108>>

\* the files of packages/lake-db/migrations: "1.sql" and "2.sql" stand for
\* 0001_init.sql and 0002_indexes.sql
RepoMigrationFiles == {<<49>> \o DotSql, <<50>> \o DotSql}

\* the files added to the folder later: "10.sql", and "3.md"
LaterMigrationFiles == {<<49, 48>> \o DotSql, <<51, 46, 109, 100>>}

\* the version of the migration whose sql creates table schema_migrations
InitVersion == <<49>>

\* f.endsWith('.sql')
EndsWithSql(f) ==
  /\ Len(f) >= Len(DotSql)
  /\ SubSeq(f, Len(f) - Len(DotSql) + 1, Len(f)) = DotSql

\* file.replace('.sql', ''): the first occurrence of ".sql" is removed
ReplaceSql(f) ==
  LET At == {i \in 1..(Len(f) - Len(DotSql) + 1) :
               SubSeq(f, i, i + Len(DotSql) - 1) = DotSql} IN
    IF At = {} THEN f
    ELSE LET i == CHOOSE i \in At : \A j \in At : i <= j IN
           SubSeq(f, 1, i - 1) \o SubSeq(f, i + Len(DotSql), Len(f))

RECURSIVE LexLess(_, _)
\* the order of Array.prototype.sort() on strings: by code unit, a proper
\* prefix first
LexLess(a, b) ==
  IF b = <<>> THEN FALSE
  ELSE IF a = <<>> THEN TRUE
  ELSE IF Head(a) # Head(b) THEN Head(a) < Head(b)
  ELSE LexLess(Tail(a), Tail(b))

RECURSIVE Sorted(_)
\* files.sort()
Sorted(S) ==
  IF S = {} THEN <<>>
  ELSE LET f == CHOOSE f \in S : \A g \in S \ {f} : LexLess(f, g) IN
         <<f>> \o Sorted(S \ {f})

\* loadMigrations: the .sql files of the folder, sorted by file name, each
\* as its version
loadMigrations(dir) ==
  LET sqlFiles == Sorted({f \in dir : EndsWithSql(f)}) IN
    [i \in 1..Len(sqlFiles) |-> ReplaceSql(sqlFiles[i])]

\* table schema_migrations exists once the sql of 0001_init is committed
TableExists ==
  \E i \in 1..Len(mig.schema) : mig.schema[i] = InitVersion

\* a migrator that is not in a call and has not returned
NoMigrate == [pc |-> "idle"]

MigrateResult(kind, versions) ==
  [kind |-> kind, versions |-> versions]

\* a new migration file is added to the folder
AddMigrationFile(f) ==
  /\ f \notin mig.dir
  /\ mig' = [mig EXCEPT !.dir = @ \cup {f}]
  /\ UNCHANGED <<now, queueVars, gw, runVars, blobVars, catalogVars, dedupVars, rn>>

\* migrate is called: loadMigrations reads the folder
MigrateLoad(m) ==
  /\ mig.call[m].pc = "idle"
  /\ mig' = [mig EXCEPT !.call[m] =
               [pc |-> "getApplied", migrations |-> loadMigrations(mig.dir),
                todo |-> loadMigrations(mig.dir), applied |-> {},
                appliedVersions |-> <<>>,
                result |-> MigrateResult("none", <<>>)]]
  /\ UNCHANGED <<now, queueVars, gw, runVars, blobVars, catalogVars, dedupVars, rn>>

\* getAppliedMigrations: the versions of schema_migrations, or the empty set
\* when the query fails because the table does not exist yet
MigrateGetApplied(m) ==
  /\ mig.call[m].pc = "getApplied"
  /\ mig' = [mig EXCEPT !.call[m].pc = "loop",
                        !.call[m].applied = IF TableExists THEN mig.rows ELSE {}]
  /\ UNCHANGED <<now, queueVars, gw, runVars, blobVars, catalogVars, dedupVars, rn>>

\* migrate, the loop passes over a migration whose version is in applied
MigrateSkip(m) ==
  /\ mig.call[m].pc = "loop"
  /\ mig.call[m].todo # <<>>
  /\ Head(mig.call[m].todo) \in mig.call[m].applied
  /\ mig' = [mig EXCEPT !.call[m].todo = Tail(@)]
  /\ UNCHANGED <<now, queueVars, gw, runVars, blobVars, catalogVars, dedupVars, rn>>

\* (mutant) applyMigration without db.tx: the sql is committed on its own
MigrateApplySql_Autocommit(m) ==
  /\ mig.call[m].pc = "loop"
  /\ mig.call[m].todo # <<>>
  /\ Head(mig.call[m].todo) \notin mig.call[m].applied
  /\ mig' = [mig EXCEPT !.call[m].pc = "insert",
                        !.schema = Append(@, Head(mig.call[m].todo))]
  /\ UNCHANGED <<now, queueVars, gw, runVars, blobVars, catalogVars, dedupVars, rn>>

\* applyMigration, db.tx begins and t.none(migration.sql) runs inside it
MigrateApplySql(m) ==
  /\ mig.call[m].pc = "loop"
  /\ mig.call[m].todo # <<>>
  /\ Head(mig.call[m].todo) \notin mig.call[m].applied
  /\ mig' = [mig EXCEPT !.call[m].pc = "insert"]
  /\ UNCHANGED <<now, queueVars, gw, runVars, blobVars, catalogVars, dedupVars, rn>>

\* how INSERT INTO schema_migrations ends for version v: the table must exist
\* or be created by this transaction, and its primary key rejects a version
\* that is recorded (the insert waits for a transaction inserting the same
\* version, so it sees what that one committed)
RecordOutcome(v) ==
  IF ~TableExists /\ v # InitVersion THEN "undefined_table"
  ELSE IF v \in mig.rows THEN "unique_violation"
  ELSE "ok"

\* applyMigration, the INSERT INTO schema_migrations and the end of db.tx:
\* the schema change and the row are committed together, or the error rolls
\* both back and leaves migrate
MigrateRecord(m) ==
  /\ mig.call[m].pc = "insert"
  /\ LET v == Head(mig.call[m].todo) IN
       IF RecordOutcome(v) = "ok"
         THEN mig' = [mig EXCEPT !.schema = Append(@, v),
                                 !.rows = @ \cup {v},
                                 !.call[m].pc = "loop",
                                 !.call[m].todo = Tail(@),
                                 !.call[m].appliedVersions = Append(@, v)]
         ELSE mig' = [mig EXCEPT !.call[m].pc = "idle",
                                 !.call[m].result =
                                   MigrateResult(RecordOutcome(v), <<>>)]
  /\ UNCHANGED <<now, queueVars, gw, runVars, blobVars, catalogVars, dedupVars, rn>>

\* migrate returns appliedVersions after the last migration
MigrateReturn(m) ==
  /\ mig.call[m].pc = "loop"
  /\ mig.call[m].todo = <<>>
  /\ mig' = [mig EXCEPT !.call[m].pc = "idle",
                        !.call[m].result =
                          MigrateResult("ok", mig.call[m].appliedVersions)]
  /\ UNCHANGED <<now, queueVars, gw, runVars, blobVars, catalogVars, dedupVars, rn>>

\* ------------------------------------------------------ gateway /v1/blobs

\* an uploader with no request yet, and the reply to a request
NoUpload == [pc |-> "idle"]

Reply(code, blobId) ==
  [code |-> code, blobId |-> blobId]

\* no download was answered yet
NoDownload == Reply(0, NoBlob)

\* PUT /v1/blobs: the body is read; an empty body is answered 400
\* empty_body, any other is handed to putBlob
UploadBegin(p, bytes) ==
  /\ gw.put[p].pc = "idle"
  /\ ppc[p] = "idle"
  /\ gw' = [gw EXCEPT !.put[p] =
              IF bytes = <<>>
                THEN [pc |-> "idle", bytes |-> bytes, reply |-> Reply(400, NoBlob)]
                ELSE [pc |-> "putBlob", bytes |-> bytes, reply |-> Reply(0, NoBlob)]]
  /\ pres' = [pres EXCEPT ![p] = NoPutResult]
  /\ UNCHANGED <<now, queueVars, mig, runVars, rn, catalogVars, dedupVars, blobs,
                 ppc, parg>>

\* the handler is about to call putBlob
AtPutBlob(p) ==
  /\ gw.put[p].pc = "putBlob"
  /\ ppc[p] = "idle"
  /\ pres[p].kind = "none"

\* PUT /v1/blobs, putBlob returned { blobId, inserted }: when inserted is
\* false the handler answers { blobId } at once
UploadPutBlobReturned(p) ==
  /\ gw.put[p].pc = "putBlob"
  /\ ppc[p] = "idle"
  /\ pres[p].kind = "ok"
  /\ gw' = [gw EXCEPT !.put[p] =
              IF pres[p].inserted
                THEN [@ EXCEPT !.pc = "putBlobBytes"]
                ELSE [@ EXCEPT !.pc = "idle",
                               !.reply = Reply(200, pres[p].blobId)]]
  /\ UNCHANGED <<now, queueVars, mig, runVars, rn, catalogVars, dedupVars,
                 blobVars>>

\* PUT /v1/blobs, ensureBucket and putBlobBytes: the object is written and
\* the handler answers { blobId }, or the object store fails and the request
\* ends with an error
UploadPutBlobBytes(p, outcome) ==
  /\ gw.put[p].pc = "putBlobBytes"
  /\ gw' = IF outcome = "ok"
             THEN [gw EXCEPT !.objects = @ \cup {pres[p].blobId},
                             !.put[p].pc = "idle",
                             !.put[p].reply = Reply(200, pres[p].blobId)]
             ELSE [gw EXCEPT !.put[p].pc = "idle",
                             !.put[p].reply = Reply(500, NoBlob)]
  /\ UNCHANGED <<now, queueVars, mig, runVars, rn, catalogVars, dedupVars,
                 blobVars>>

\* GET /v1/blobs/:blobId: 404 without a metadata row; with one, the stream
\* of the object, or the error of getBlobStream when the object is missing
Download(blobId) ==
  /\ gw' = [gw EXCEPT !.get =
              IF ~BlobExists(blobId) THEN Reply(404, blobId)
              ELSE IF blobId \in gw.objects THEN Reply(200, blobId)
              ELSE Reply(500, blobId)]
  /\ UNCHANGED <<now, queueVars, mig, runVars, rn, catalogVars, dedupVars,
                 blobVars>>

\* ---------------------------------------------------------- specifications

Init ==
  /\ now = 0
  /\ tasks = <<>>
  /\ pc = [w \in Workers |-> "idle"]
  /\ txNow = [w \in Workers |-> NoTime]
  /\ leaseMs = [w \in Workers |-> NoTime]
  /\ cand = [w \in Workers |-> {}]
  /\ sel = [w \in Workers |-> NoTask]
  /\ ret = [w \in Workers |-> NoCall]
  /\ runs = <<>>
  /\ rpc = [c \in Callers |-> "idle"]
  /\ rkey = [c \in Callers |-> NoKey]
  /\ rres = [c \in Callers |-> StartResult("none", NoRun)]
  /\ fres = "none"
  /\ blobs = <<>>
  /\ ppc = [p \in Putters |-> "idle"]
  /\ parg = [p \in Putters |-> NoPut]
  /\ pres = [p \in Putters |-> NoPutResult]
  /\ items = <<>>
  /\ edges = <<>>
  /\ ires = ItemResult("none", NoItem)
  /\ eres = EdgeResult("none", NoEdge)
  /\ outputs = {}
  /\ logs = <<>>
  /\ cpc = [k \in Collectors |-> "idle"]
  /\ carg = [k \in Collectors |-> NoObservation]
  /\ cloc = [k \in Collectors |-> NoLocals]
  /\ cres = [k \in Collectors |-> NoResult]
  /\ rn = [pc |-> "idle", hasFailures |-> FALSE, results |-> <<>>,
           call |-> NoRunnerCall]
  /\ mig = [dir |-> RepoMigrationFiles, schema |-> <<>>, rows |-> {},
            call |-> [m \in Migrators |-> NoMigrate]]
  /\ gw = [objects |-> {}, put |-> [p \in Uploaders |-> NoUpload],
           get |-> NoDownload]

\* Concurrent leasing: both workers, priorities and due times, time passing.
NextLease ==
  \/ /\ Len(tasks) < MaxLeaseTasks
     /\ \E p \in Priorities, d \in {now, now + 1} : Enqueue(p, d, 2)
  \/ \E w \in Workers : LeaseBegin(w, 1)
  \/ \E w \in Workers : LeaseSelect(w)
  \/ \E w \in Workers : LeaseCommit(w)
  \/ now < MaxLeaseTime /\ Tick

SpecLease == Init /\ [][NextLease]_vars

\* Task life cycle: both workers leasing, every acknowledgement on every
\* task in every status.
NextLife ==
  \/ /\ Len(tasks) < MaxLifeTasks
     /\ \E m \in MaxAttemptsChoices : Enqueue(0, now, m)
  \/ \E w \in Workers : LeaseBegin(w, 1)
  \/ \E w \in Workers : LeaseSelect(w)
  \/ \E w \in Workers : LeaseCommit(w)
  \/ \E t \in TaskIds : MarkRunning(t)
  \/ \E t \in TaskIds : MarkSucceeded(t)
  \/ \E t \in TaskIds, e \in Errors :
       tasks[t].attempts <= tasks[t].maxAttempts /\ MarkFailed(t, e)

SpecLife == Init /\ [][NextLife]_vars

\* Retries: one worker leasing, any task failed at any moment, time passing
\* so that tasks become due.
NextRetry ==
  \/ /\ Len(tasks) < MaxRetryTasks
     /\ \E p \in Priorities, d \in {now, now + 1} : Enqueue(p, d, 2)
  \/ LeaseBegin("w1", 1)
  \/ LeaseSelect("w1")
  \/ LeaseCommit("w1")
  \/ \E t \in TaskIds :
       tasks[t].attempts < tasks[t].maxAttempts /\ MarkFailed(t, "e1")
  \/ now < MaxRetryTime /\ Tick

SpecRetry == Init /\ [][NextRetry]_vars

\* Holding: both workers leasing for one instant, any task failed at any
\* moment, time passing so that leases expire.
NextHold ==
  \/ Len(tasks) < MaxHoldTasks /\ Enqueue(0, now, 2)
  \/ \E w \in Workers : LeaseBegin(w, 1)
  \/ \E w \in Workers : LeaseSelect(w)
  \/ \E w \in Workers : LeaseCommit(w)
  \/ \E t \in TaskIds :
       tasks[t].attempts < tasks[t].maxAttempts /\ MarkFailed(t, "e1")
  \/ now < MaxHoldTime /\ Tick

SpecHold == Init /\ [][NextHold]_vars

\* worker w has received a task from leaseNextTask and not acknowledged it
Holding(w) ==
  /\ pc[w] = "idle"
  /\ ret[w] \in TaskIds
  /\ tasks[ret[w]].status = "leased"
  /\ tasks[ret[w]].lockedBy = w

\* a step of a worker that keeps calling leaseNextTask and acknowledges every
\* task it receives with markTaskSucceeded or markTaskFailed
WorkerStep(w) ==
  \/ ~Holding(w) /\ LeaseBegin(w, 1)
  \/ LeaseSelect(w)
  \/ LeaseCommit(w)
  \/ Holding(w) /\ MarkSucceeded(ret[w])
  \/ Holding(w) /\ MarkFailed(ret[w], "e1")

\* Work: tasks enqueued with any maxAttempts, due now or later, one worker
\* leasing and acknowledging, time passing.
NextWork ==
  \/ /\ Len(tasks) < MaxWorkTasks
     /\ \E d \in {now, now + 1}, m \in MaxAttemptsChoices :
          d <= MaxWorkTime /\ Enqueue(0, d, m)
  \/ WorkerStep("w1")
  \/ now < MaxWorkTime /\ Tick

\* the worker keeps running
SpecWork ==
  Init /\ [][NextWork]_vars /\ WF_vars(WorkerStep("w1"))

\* Run ledger: two callers starting runs under two keys, runs finishing.
NextRuns ==
  \/ \E c \in Callers, k \in Keys : StartLookup(c, k)
  \/ \E c \in Callers : Len(runs) < MaxRuns /\ StartInsert(c)
  \/ \E k \in Keys \cup {NoKey} : Len(runs) < MaxRuns /\ CreateRun(k, "v1")
  \/ \E id \in FinishIds, f \in FinishInputs, stats \in StatsValues :
        FinishRun(id, f[1], stats, f[2])

SpecRuns == Init /\ [][NextRuns]_vars

\* Run life cycle: one caller starting runs, runs created directly, both
\* finishRun functions on every run id, one that names no run included.
NextFinish ==
  \/ \E k \in Keys : StartLookup("c1", k)
  \/ Len(runs) < MaxFinishRuns /\ StartInsert("c1")
  \/ Len(runs) < MaxFinishRuns /\ CreateRun(NoKey, "v1")
  \/ \E id \in FinishIds, f \in FinishInputs, stats \in StatsValues :
        FinishRun(id, f[1], stats, f[2])
  \/ \E id \in FinishIds, f \in StoreFinishInputs :
        StoreFinishRun(id, f[1], f[2])

SpecFinish == Init /\ [][NextFinish]_vars

\* Blob store: three callers putting two byte strings under any mimeType.
NextBlobs ==
  \/ \E p \in Putters, bytes \in ByteStrings, mime \in MimeTypes :
       PutBegin(p, bytes, mime)
  \/ \E p \in Putters : PutInsert(p)
  \/ \E p \in Putters : PutReturn(p)

SpecBlobs == Init /\ [][NextBlobs]_vars

\* Catalog: a caller putting one blob, items created with every payload
\* combination (stored blob, blob never stored, text, both, neither), edges
\* created between every pair of item ids.
NextCatalog ==
  \/ PutBegin("p1", <<104>>, NoMime)
  \/ PutInsert("p1")
  \/ PutReturn("p1")
  \/ \E b \in BlobRefs, t \in Texts :
       /\ Len(items) < MaxCatalogItems \/ ItemInsertOutcome(b, t) # "ok"
       /\ CreateItem(NoUri, NoDigest, b, t)
  \/ \E f, t \in ItemRefs :
       /\ Len(edges) < MaxCatalogEdges \/ EdgeInsertOutcome(f, t) # "ok"
       /\ CreateEdge(f, t, "mentions", NoMeta)

SpecCatalog == Init /\ [][NextCatalog]_vars

\* Dedup: one collector observing urls and bodies for a run, one after the
\* other, time passing between its steps.
NextDedup ==
  \/ runs = <<>> /\ CreateRun(NoKey, "v1")
  \/ /\ Len(items) < MaxDedupItems
     /\ \E r \in RunIds, url \in Urls, status \in FetchStatuses,
           body \in Bodies :
          CollectBegin("k1", r, url, status, body)
  \/ CollectPutBlob("k1")
  \/ CollectFindUri("k1")
  \/ CollectFindHash("k1")
  \/ CollectCreateItem("k1")
  \/ CollectAddRunOutput("k1")
  \/ CollectCreateEdge("k1")
  \/ CollectLogLink("k1")
  \/ CollectLogNew("k1")
  \/ now < MaxDedupTime /\ Tick

SpecDedup == Init /\ [][NextDedup]_vars

\* Versions: runs created under two normalization versions, one collector
\* observing urls and bodies for any of them.
NextVersions ==
  \/ /\ Len(runs) < MaxVersionRuns
     /\ \E ver \in NormalizationVersions : CreateRun(NoKey, ver)
  \/ /\ Len(items) < MaxVersionItems
     /\ \E r \in RunIds, url \in Urls, status \in FetchStatuses,
           body \in Bodies :
          CollectBegin("k1", r, url, status, body)
  \/ CollectPutBlob("k1")
  \/ CollectFindUri("k1")
  \/ CollectFindHash("k1")
  \/ CollectCreateItem("k1")
  \/ CollectAddRunOutput("k1")
  \/ CollectCreateEdge("k1")
  \/ CollectLogLink("k1")
  \/ CollectLogNew("k1")

SpecVersions == Init /\ [][NextVersions]_vars

\* the collectUrl calls that have begun and not yet inserted their item
BeforeInsert ==
  {k \in Collectors : cpc[k] \in {"putBlob", "findUri", "findHash",
                                  "createItem"}}

\* Race: two collectors observing the same content for one run, their
\* queries and writes interleaved in every order.
NextRace ==
  \/ runs = <<>> /\ CreateRun(NoKey, "v1")
  \/ /\ Len(items) + Cardinality(BeforeInsert) < MaxRaceItems
     /\ \E k \in Collectors, r \in RunIds, url \in RaceUrls,
           body \in RaceBodies :
          CollectBegin(k, r, url, 200, body)
  \/ \E k \in Collectors : CollectPutBlob(k)
  \/ \E k \in Collectors : CollectFindUri(k)
  \/ \E k \in Collectors : CollectFindHash(k)
  \/ \E k \in Collectors : CollectCreateItem(k)
  \/ \E k \in Collectors : CollectAddRunOutput(k)
  \/ \E k \in Collectors : CollectCreateEdge(k)
  \/ \E k \in Collectors : CollectLogLink(k)
  \/ \E k \in Collectors : CollectLogNew(k)

SpecRace == Init /\ [][NextRace]_vars

\* Runner: main running collectors one after the other, each through
\* startCollectorRun, collectHttpSnapshot over its urls (every fetch ending
\* with either status and either body) and finishCollectorRun, while another
\* process starts one run under one of the keys.
NextRunner ==
  \/ /\ Len(rn.results) < MaxRunnerCalls
     /\ \E config \in RunnerConfigs : RunCollectorBegin(config)
  \/ rn.pc = "startRun" /\ rres["c1"].kind = "none"
       /\ StartLookup("c1", rn.call.key)
  \/ StartInsert("c1")
  \/ rres["c2"].kind = "none" /\ \E k \in Keys : StartLookup("c2", k)
  \/ StartInsert("c2")
  \/ RunCollectorStarted
  \/ CollectHttpSnapshotBegin
  \/ AtNextUrl
       /\ \E status \in FetchStatuses, body \in RunnerBodies :
            CollectBegin("k1", rn.call.runId, Head(rn.call.urls), status, body)
  \/ CollectPutBlob("k1")
  \/ CollectFindUri("k1")
  \/ CollectFindHash("k1")
  \/ CollectCreateItem("k1")
  \/ CollectAddRunOutput("k1")
  \/ CollectCreateEdge("k1")
  \/ CollectLogLink("k1")
  \/ CollectLogNew("k1")
  \/ CollectHttpSnapshotCollected
  \/ CollectHttpSnapshotFailed
  \/ RunCollectorCaught
  \/ CollectHttpSnapshotCompleted
  \/ RunCollectorProcessResults
  \/ AtFinishRun
       /\ FinishRun(rn.call.runId, RunnerStatus, RunnerStats, rn.call.error)
  \/ RunCollectorReturn

SpecRunner == Init /\ [][NextRunner]_vars

\* Touch: one collector observing for a run, every item id touched at any
\* moment, one id of no item included, time passing.
NextTouch ==
  \/ runs = <<>> /\ CreateRun(NoKey, "v1")
  \/ /\ Len(items) < MaxTouchItems
     /\ \E r \in RunIds, url \in RaceUrls, body \in RunnerBodies :
          CollectBegin("k1", r, url, 200, body)
  \/ CollectPutBlob("k1")
  \/ CollectFindUri("k1")
  \/ CollectFindHash("k1")
  \/ CollectCreateItem("k1")
  \/ CollectAddRunOutput("k1")
  \/ CollectCreateEdge("k1")
  \/ CollectLogLink("k1")
  \/ CollectLogNew("k1")
  \/ \E id \in ItemRefs : TouchUpdatedAt(id)
  \/ now < MaxTouchTime /\ Tick

SpecTouch == Init /\ [][NextTouch]_vars

\* Migrations: two processes calling migrate, again and again, while new
\* files are added to the folder.
NextMigrate ==
  \/ \E f \in LaterMigrationFiles : AddMigrationFile(f)
  \/ \E m \in Migrators : MigrateLoad(m)
  \/ \E m \in Migrators : MigrateGetApplied(m)
  \/ \E m \in Migrators : MigrateSkip(m)
  \/ \E m \in Migrators : MigrateApplySql(m)
  \/ \E m \in Migrators : MigrateRecord(m)
  \/ \E m \in Migrators : MigrateReturn(m)

SpecMigrate == Init /\ [][NextMigrate]_vars

\* Gateway: two clients uploading, the object store failing or not, and
\* downloads of every blob id at any moment.
NextGateway ==
  \/ \E p \in Uploaders, bytes \in UploadBodies : UploadBegin(p, bytes)
  \/ \E p \in Uploaders, mime \in {NoMime, "text/plain"} :
       AtPutBlob(p) /\ PutBegin(p, gw.put[p].bytes, mime)
  \/ \E p \in Uploaders : PutInsert(p)
  \/ \E p \in Uploaders : PutReturn(p)
  \/ \E p \in Uploaders : UploadPutBlobReturned(p)
  \/ \E p \in Uploaders, outcome \in StoreOutcomes :
       UploadPutBlobBytes(p, outcome)
  \/ \E bytes \in UploadBodies : Download(sha256(bytes))

SpecGateway == Init /\ [][NextGateway]_vars

\* ------------------------------------------------------------------ claims

\* the step in which w's statement scans and locks
SelectStep(w) == pc[w] = "scan" /\ pc'[w] = "locked"

\* the step in which w's transaction commits and its call returns
CommitStep(w) == pc[w] = "locked" /\ pc'[w] = "idle"

\* the workers that hold task t: it is locked by their open transaction, or
\* their call returned it
Holders(t) ==
  {w \in Workers : (pc[w] = "locked" /\ sel[w] = t) \/ ret[w] = t}

C1_OneHolder ==
  \A t \in TaskIds :
    /\ Cardinality(Holders(t)) <= 1
    /\ \A w \in Workers :
         ret[w] = t => tasks[t].status = "leased" /\ tasks[t].lockedBy = w

\* task t is claimed by a lease call of another worker that is still in flight
ClaimedInFlight(t, w) ==
  \E v \in Workers : v # w /\ pc[v] = "locked" /\ sel[v] = t

C1_EmptyOnlyIfClaimed ==
  \A w \in Workers :
    SelectStep(w) /\ sel'[w] = NoTask =>
      \A t \in cand[w] : ClaimedInFlight(t, w) \/ tasks[t].status = "leased"

C1_LockerReturnsIt ==
  \A w \in Workers :
    CommitStep(w) =>
      /\ ret'[w] = sel[w]
      /\ sel[w] # NoTask =>
           /\ tasks[sel[w]].status = "queued"
           /\ tasks'[sel[w]].status = "leased"
           /\ tasks'[sel[w]].lockedBy = w

\* C1: concurrent leaseNext calls never both return the same task. Under
\* every interleaving of their transactions a task is held by at most one
\* worker; the call whose statement locked the row returns it, leased with
\* lockedBy = that worker; and a call comes back empty only when every task
\* it found eligible has been claimed by another call. So of two calls
\* contending for one eligible task exactly one returns it and the other
\* returns empty.
C1_LeaseExclusive ==
  /\ []C1_OneHolder
  /\ [][C1_EmptyOnlyIfClaimed /\ C1_LockerReturnsIt]_vars

\* two transactions in flight on the only task: one locked it, one skipped it
C1_Witness ==
  /\ Len(tasks) = 1
  /\ pc["w1"] = "locked" /\ sel["w1"] = 1
  /\ pc["w2"] = "locked" /\ sel["w2"] = NoTask /\ txNow["w2"] >= tasks[1].dueAt

\* C2: a lease that is never acknowledged expires: a leaseNext call begun
\* after lockedUntil of a task that is still leased, with no other eligible
\* task, locks (and so returns) that task.
C2_ExpiredLeaseIsLeasedAgain ==
  [][\A w \in Workers : \A t \in TaskIds :
       ( /\ SelectStep(w)
         /\ tasks[t].status = "leased"
         /\ tasks[t].lockedUntil < txNow[w]
         /\ tasks[t].dueAt <= txNow[w]
         /\ \A u \in TaskIds : tasks[u].status # "queued" )
       => sel'[w] = t]_vars

\* C3: every task has attempts <= maxAttempts in every reachable state.
C3_AttemptsWithinMax ==
  \A t \in TaskIds : tasks[t].attempts <= tasks[t].maxAttempts

\* C4: once dead, a task stays dead whatever call follows.
C4_DeadIsPermanent ==
  [][\A t \in TaskIds : tasks[t].status = "dead" => tasks'[t].status = "dead"]_vars

\* C5: markFailed on a leased task adds exactly one to attempts, records the
\* error as lastError, and makes the task dead when the new attempts reaches
\* maxAttempts, queued with both lock fields cleared otherwise; nothing else
\* of the row changes. So N failures of a leased task with maxAttempts = N
\* leave it queued with attempts 1..N-1 and then dead with attempts = N.
C5_MarkFailedStep ==
  [][\A t \in TaskIds : \A e \in Errors :
       MarkFailed(t, e) /\ tasks[t].status = "leased" =>
         /\ tasks'[t].attempts = tasks[t].attempts + 1
         /\ tasks'[t].lastError = e
         /\ tasks'[t].maxAttempts = tasks[t].maxAttempts
         /\ tasks'[t].priority = tasks[t].priority
         /\ tasks'[t].dueAt = tasks[t].dueAt
         /\ IF tasks[t].attempts + 1 >= tasks[t].maxAttempts
              THEN tasks'[t].status = "dead"
              ELSE /\ tasks'[t].status = "queued"
                   /\ tasks'[t].lockedUntil = NoTime
                   /\ tasks'[t].lockedBy = NoWorker]_vars

\* a task with maxAttempts = 2 that was failed twice and is dead at the limit
C5_Witness ==
  \E t \in TaskIds :
    /\ tasks[t].maxAttempts = 2
    /\ tasks[t].attempts = 2
    /\ tasks[t].status = "dead"
    /\ tasks[t].lastError = "e2"

\* the status changes of the state machine of section 4.6
AllowedStatusChanges ==
  {<<"queued", "leased">>, <<"leased", "succeeded">>,
   <<"leased", "queued">>, <<"leased", "dead">>}

\* C6: every status change of a task is one of queued -> leased,
\* leased -> succeeded, leased -> queued, leased -> dead; in particular a
\* succeeded task never changes status again.
C6_StatusChangesFollowMachine ==
  [][\A t \in TaskIds :
       tasks'[t].status # tasks[t].status =>
         <<tasks[t].status, tasks'[t].status>> \in AllowedStatusChanges]_vars

\* C7: the task a leaseNext call locks is first in priority-descending,
\* dueAt-ascending order among the tasks that were eligible when the call
\* read the queue and are unclaimed when it locks: none of those has a higher
\* priority, or the same priority and an earlier dueAt.
C7_SelectsFirstInOrder ==
  [][\A w \in Workers :
       SelectStep(w) /\ sel'[w] # NoTask =>
         /\ sel'[w] \in cand[w]
         /\ \A u \in cand[w] :
              tasks[u].status = "queued" /\ ~ClaimedInFlight(u, w) =>
                /\ tasks[u].priority <= tasks[sel'[w]].priority
                /\ tasks[u].priority = tasks[sel'[w]].priority =>
                     tasks[u].dueAt >= tasks[sel'[w]].dueAt]_vars

\* a call locked the priority-10 task while a due priority-0 task waits
C7_Witness ==
  \E w \in Workers : \E u \in TaskIds :
    /\ pc[w] = "locked" /\ sel[w] # NoTask /\ sel[w] # u
    /\ tasks[sel[w]].priority = 10
    /\ tasks[u].priority = 0
    /\ tasks[u].status = "queued"
    /\ tasks[u].dueAt <= txNow[w]
    /\ tasks[u].dueAt < tasks[sel[w]].dueAt

\* C8: leaseNext never locks or returns a task whose dueAt is later than
\* now; a future-due task is not handed out before its dueAt is reached.
C8_NeverLeasedBeforeDue ==
  /\ \A w \in Workers :
       /\ pc[w] = "locked" /\ sel[w] # NoTask => tasks[sel[w]].dueAt <= now
       /\ ret[w] \in TaskIds => tasks[ret[w]].dueAt <= now
  /\ \A t \in TaskIds : tasks[t].dueAt > now => tasks[t].status = "queued"

\* of two tasks of equal priority the past-due one was returned and the
\* future-due one is still queued
C8_Witness ==
  \E w \in Workers : \E u \in TaskIds :
    /\ ret[w] \in TaskIds /\ ret[w] # u
    /\ tasks[u].priority = tasks[ret[w]].priority
    /\ tasks[u].dueAt > now
    /\ tasks[u].status = "queued"

\* no task is queued, due and unclaimed, as w's transaction sees it
NothingToLease(w) ==
  \A t \in TaskIds :
    \/ tasks[t].status # "queued"
    \/ tasks[t].dueAt > txNow[w]
    \/ ClaimedInFlight(t, w)

C9_EmptyResult ==
  \A w \in Workers :
    /\ SelectStep(w) /\ NothingToLease(w) => sel'[w] = NoTask /\ tasks' = tasks
    /\ CommitStep(w) /\ sel[w] = NoTask => ret'[w] = NoTask /\ tasks' = tasks

C9_NeverWaits ==
  \A w \in Workers :
    /\ pc[w] = "scan" => ENABLED LeaseSelect(w)
    /\ pc[w] = "locked" => ENABLED LeaseCommit(w)

\* C9: when no task is eligible (none queued and due, or each such row is
\* claimed by a lease call in flight) leaseNext locks nothing, returns the
\* empty result and changes no task; and a lease call never waits: whatever
\* the other calls hold, its next step can be taken.
C9_EmptyWithoutWaiting ==
  /\ []C9_NeverWaits
  /\ [][C9_EmptyResult]_vars

\* a call came back empty-handed because the only due task is claimed by
\* the other worker's call, which is still in flight
C9_Witness ==
  \E w \in Workers : \E t \in TaskIds :
    /\ pc[w] = "locked" /\ sel[w] = NoTask
    /\ tasks[t].status = "queued" /\ tasks[t].dueAt <= txNow[w]
    /\ ClaimedInFlight(t, w)
    /\ \A u \in TaskIds \ {t} : tasks[u].dueAt > now

C10_OneRunPerKey ==
  \A r1, r2 \in RunIds :
    r1 # r2 /\ runs[r1].key = runs[r2].key => runs[r1].key = NoKey

C10_SecondStartConflicts ==
  \A c \in Callers : \A k \in Keys : \A r \in RunIds :
    StartLookup(c, k) /\ runs[r].key = k =>
      /\ runs' = runs
      /\ rpc'[c] = "idle"
      /\ rres'[c].kind = "idempotency_conflict"
      /\ rres'[c].runId = r

C10_FreshKeyStarts ==
  \A c \in Callers :
    StartInsert(c) /\ (\A r \in RunIds : runs[r].key # rkey[c]) =>
      /\ Len(runs') = Len(runs) + 1
      /\ \A r \in RunIds : runs'[r] = runs[r]
      /\ runs'[Len(runs')].key = rkey[c]
      /\ runs'[Len(runs')].status = "running"
      /\ rres'[c].kind = "started"
      /\ rres'[c].runId = Len(runs')

C11_ConcurrentLoserGetsConflict ==
  [][\A c, d \in Callers :
       ( /\ c # d
         /\ StartInsert(c)
         /\ rres[d].kind = "started"
         /\ runs[rres[d].runId].key = rkey[c] )
       => /\ runs' = runs
          /\ rres'[c] = StartResult("idempotency_conflict", rres[d].runId)]_vars

\* C12: finish on a run that is already succeeded, failed or canceled, or on
\* a run id that names no run, fails with NotFound and leaves the runs as
\* they are.
C12_FinishRejectsTerminalOrMissing ==
  [][\A id \in FinishIds :
       (id \notin RunIds \/ runs[id].status # "running") =>
         /\ \A f \in FinishInputs, stats \in StatsValues :
              FinishRun(id, f[1], stats, f[2]) =>
                fres' = "NotFound" /\ runs' = runs
         /\ \A f \in StoreFinishInputs :
              StoreFinishRun(id, f[1], f[2]) =>
                fres' = "NotFound" /\ runs' = runs]_vars

\* C13: once a run is succeeded, failed or canceled, no later step changes
\* its status, finishedAt, error or metrics.
C13_TerminalRunIsFrozen ==
  [][\A r \in RunIds :
       runs[r].status # "running" =>
         /\ runs'[r].status = runs[r].status
         /\ runs'[r].finishedAt = runs[r].finishedAt
         /\ runs'[r].error = runs[r].error
         /\ runs'[r].metrics = runs[r].metrics]_vars

\* C14: in every reachable state a run has finishedAt unset exactly when its
\* status is running: a run is created running with no finishedAt, and finish
\* sets status and finishedAt in one step.
C14_FinishedAtIffNotRunning ==
  \A r \in RunIds :
    /\ runs[r].status \in {"running", "succeeded", "failed", "canceled"}
    /\ runs[r].finishedAt = NoTime <=> runs[r].status = "running"

\* a run started by startRun was canceled and carries its finishedAt
C14_Witness ==
  \E r \in RunIds :
    /\ runs[r].key \in Keys
    /\ runs[r].status = "canceled"
    /\ runs[r].finishedAt = now

\* C15: finish(runId, status, stats, error?) of the collector runner on a
\* running run leaves metrics.stats equal to the stats passed, keeps the
\* config snapshot written at start, and sets error to the error passed, or
\* to null when none was passed.
C15_FinishMergesStats ==
  [][\A id \in RunIds, f \in FinishInputs, stats \in StatsValues :
       FinishRun(id, f[1], stats, f[2]) /\ runs[id].status = "running" =>
         /\ runs'[id].metrics.stats = stats
         /\ runs'[id].metrics.configSnapshot = runs[id].metrics.configSnapshot
         /\ runs'[id].error = f[2]
         /\ runs'[id].status = f[1]
         /\ runs'[id].key = runs[id].key]_vars

\* a run started with a config snapshot was finished as failed with stats
\* and an error summary, and the snapshot is still in its metrics
C15_Witness ==
  \E r \in RunIds :
    /\ runs[r].metrics.configSnapshot = "cfg"
    /\ runs[r].metrics.stats = "s2"
    /\ runs[r].status = "failed"
    /\ runs[r].error = "e1"

\* the step in which p's putBlob runs its INSERT
PutStep(p) == ppc[p] = "insert" /\ ppc'[p] = "return"

\* the rows of bs stored under digest id
RowsOf(bs, id) == {i \in 1..Len(bs) : bs[i].blobId = id}

C16_OneRowPerDigest ==
  \A i, j \in 1..Len(blobs) : blobs[i].blobId = blobs[j].blobId => i = j

C16_PutStep ==
  \A p \in Putters :
    PutStep(p) =>
      LET id == sha256(parg[p].bytes) IN
        /\ pres'[p].blobId = id
        /\ IF RowsOf(blobs, id) = {}
             THEN /\ pres'[p].inserted = TRUE
                  /\ blobs' = Append(blobs, [blobId |-> id,
                                             sizeBytes |-> Len(parg[p].bytes),
                                             mimeType |-> parg[p].mimeType])
             ELSE /\ pres'[p].inserted = FALSE
                  /\ blobs' = blobs

C17_NoErrorNoWait ==
  \A p \in Putters :
    /\ pres[p].kind \in {"none", "ok"}
    /\ ppc[p] = "insert" => ENABLED PutInsert(p)
    /\ ppc[p] = "return" =>
         /\ pres[p].kind = "ok"
         /\ Cardinality(RowsOf(blobs, pres[p].blobId)) = 1

C17_OneInsertReported ==
  /\ \A p \in Putters :
       PutStep(p) =>
         /\ pres'[p].kind = "ok"
         /\ pres'[p].blobId = parg[p].blobId
         /\ pres'[p].inserted <=> RowsOf(blobs, parg[p].blobId) = {}
  /\ \A b \in ByteStrings :
       Cardinality(RowsOf(blobs', sha256(b))) >= Cardinality(RowsOf(blobs, sha256(b)))

ExactlyOne(b, t) == (b # NoBlob) # (t # NoText)

\* every stored item has exactly one of blobRef and inlineText
C18_StoredItemsHaveOnePayload ==
  \A i \in ItemIds : ExactlyOne(items[i].blobId, items[i].textContent)

\* the create call stored nothing and ended with error kind
CreateRejected(kind) ==
  items' = items /\ ires' = ItemResult(kind, NoItem)

\* the create call stored the item (b, t) and returned it
CreateStored(b, t) ==
  /\ Len(items') = Len(items) + 1
  /\ \A i \in ItemIds : items'[i] = items[i]
  /\ items'[Len(items')].blobId = b
  /\ items'[Len(items')].textContent = t
  /\ ires' = ItemResult("ok", Len(items'))

C18_AnyOnePayloadSucceeds ==
  \A b \in BlobRefs, t \in Texts :
    CreateItem(NoUri, NoDigest, b, t) =>
      IF ExactlyOne(b, t) THEN CreateStored(b, t)
      ELSE CreateRejected("check_violation")

\* C18: create fails with a validation error and stores nothing when the
\* input has both a blob reference and inline text, or neither; it succeeds
\* when exactly one is present; hence every stored item has exactly one of
\* blobRef and inlineText in every reachable state.
C18_CreateNeedsOnePayload ==
  /\ []C18_StoredItemsHaveOnePayload
  /\ [][C18_AnyOnePayloadSucceeds]_vars

\* a row of table blobs has digest b
StoredBlob(b) == \E i \in 1..Len(blobs) : blobs[i].blobId = b

C18_OnePayloadOfStoredBlobSucceeds ==
  \A b \in BlobRefs, t \in Texts :
    CreateItem(NoUri, NoDigest, b, t) =>
      IF ~ExactlyOne(b, t) THEN CreateRejected("check_violation")
      ELSE IF b # NoBlob /\ ~StoredBlob(b)
             THEN CreateRejected("foreign_key_violation")
             ELSE CreateStored(b, t)

\* C18 (amended): create fails with a validation error and stores nothing
\* when the input has both a blob reference and inline text, or neither; with
\* exactly one present it succeeds when that is inline text or a reference to
\* a stored blob, and fails with a referential-integrity error, storing
\* nothing, when the reference names no stored blob; hence every stored item
\* has exactly one of blobRef and inlineText in every reachable state.
C18_CreateNeedsOnePayloadOfStoredBlob ==
  /\ []C18_StoredItemsHaveOnePayload
  /\ [][C18_OnePayloadOfStoredBlobSucceeds]_vars

\* an item with a blob and an item with inline text are stored, and the
\* last create, with two payloads or none, was rejected by the constraint
C18_Witness ==
  /\ ires = ItemResult("check_violation", NoItem)
  /\ \E i, j \in ItemIds :
       /\ items[i].blobId # NoBlob /\ items[i].textContent = NoText
       /\ items[j].blobId = NoBlob /\ items[j].textContent # NoText

C19_EndpointsExist ==
  \A e \in 1..Len(edges) :
    edges[e].fromItemId \in ItemIds /\ edges[e].toItemId \in ItemIds

C19_CreateEdgeStep ==
  \A f, t \in ItemRefs :
    CreateEdge(f, t, "mentions", NoMeta) =>
      IF f \in ItemIds /\ t \in ItemIds
        THEN /\ Len(edges') = Len(edges) + 1
             /\ \A e \in 1..Len(edges) : edges'[e] = edges[e]
             /\ edges'[Len(edges')].fromItemId = f
             /\ edges'[Len(edges')].toItemId = t
             /\ edges'[Len(edges')].rel = "mentions"
             /\ eres' = EdgeResult("ok", Len(edges'))
        ELSE /\ edges' = edges
             /\ eres' = EdgeResult("foreign_key_violation", NoEdge)

C19_ItemsStay ==
  \A i \in ItemIds : i <= Len(items')

\* C19: createEdge fails with a referential-integrity error and stores no
\* edge when fromItemId or toItemId names no existing item, and succeeds,
\* storing the edge, when both exist; no item is ever removed; hence both
\* endpoints of every stored edge are existing items in every reachable
\* state.
C19_EdgesReferenceItems ==
  /\ []C19_EndpointsExist
  /\ [][C19_CreateEdgeStep /\ C19_ItemsStay]_vars

\* an edge between two different items is stored and the last createEdge,
\* with an endpoint that names no item, was rejected
C19_Witness ==
  /\ eres = EdgeResult("foreign_key_violation", NoEdge)
  /\ \E e \in 1..Len(edges) :
       /\ edges[e].fromItemId # edges[e].toItemId
       /\ edges[e].fromItemId \in ItemIds /\ edges[e].toItemId \in ItemIds

\* the items stored before item n with its content digest, with its
\* canonical URI
DigestMatchesOf(n) ==
  {i \in 1..(n - 1) : items[i].contentSha256 = items[n].contentSha256}

UriMatchesOf(n) ==
  {i \in 1..(n - 1) : items[i].canonicalUri = items[n].canonicalUri}

\* the supersedes edges that end at item n
SupersedesEdgesTo(n) ==
  {e \in 1..Len(edges) : edges[e].toItemId = n /\ edges[e].rel = "supersedes"}

\* C20: when the content digest of an observation matches existing item A
\* and its canonical URI matches a different existing item B, the resolver
\* selects the digest match: the result is not new, its supersededItemId is
\* an item with the observation's digest, and the one supersedes edge that
\* ends at the new item starts at that item.
C20_DigestMatchWins ==
  \A k \in Collectors :
    cres[k].kind = "ok" =>
      LET n == cres[k].itemId IN
        (\E a \in DigestMatchesOf(n), b \in UriMatchesOf(n) : a # b) =>
          /\ ~cres[k].isNew
          /\ cres[k].supersededItemId \in DigestMatchesOf(n)
          /\ Cardinality(SupersedesEdgesTo(n)) = 1
          /\ \A e \in SupersedesEdgesTo(n) :
               edges[e].fromItemId = cres[k].supersededItemId

\* item A (d1, u1) and item B (d2, u2) are stored; the observation (d1, u2)
\* was resolved to A, not to B
C20_Witness ==
  \E k \in Collectors : \E a, b \in ItemIds :
    /\ cres[k].kind = "ok"
    /\ a # b
    /\ a \in DigestMatchesOf(cres[k].itemId) /\ a \notin UriMatchesOf(cres[k].itemId)
    /\ b \in UriMatchesOf(cres[k].itemId) /\ b \notin DigestMatchesOf(cres[k].itemId)
    /\ cres[k].supersededItemId = a
    /\ \E e \in 1..Len(edges) :
         edges[e].fromItemId = a /\ edges[e].toItemId = cres[k].itemId

\* the collectUrl call that created item n has returned
Returned(n) ==
  \A k \in Collectors : cpc[k] = "idle" \/ cloc[k].itemId # n

\* the one supersedes edge into item n starts at a most recent item of S and
\* carries the reason r
OneEdgeFrom(n, S, r) ==
  /\ Cardinality(SupersedesEdgesTo(n)) = 1
  /\ \A e \in SupersedesEdgesTo(n) :
       /\ edges[e].fromItemId \in MostRecent(S)
       /\ edges[e].meta.reason = r

\* C21: when only the digest query finds items, the most recent of them is
\* the predecessor and the supersedes edge's reason is content_sha256; when
\* only the URI query finds items, the most recent of them is the
\* predecessor and the reason is canonical_uri; when neither finds an item,
\* no edge into the new item is created.
C21_SingleMatchIsPredecessor ==
  \A n \in ItemIds :
    Returned(n) =>
      /\ DigestMatchesOf(n) # {} /\ UriMatchesOf(n) = {} =>
           OneEdgeFrom(n, DigestMatchesOf(n), "content_sha256")
      /\ DigestMatchesOf(n) = {} /\ UriMatchesOf(n) # {} =>
           OneEdgeFrom(n, UriMatchesOf(n), "canonical_uri")
      /\ DigestMatchesOf(n) = {} /\ UriMatchesOf(n) = {} =>
           SupersedesEdgesTo(n) = {}

\* A (d1, u1) is stored; (d1, u2) was observed and linked to A by its
\* digest; (d2, u1) was observed and linked to A by its URI
C21_Witness ==
  /\ Len(items) = 3 /\ Returned(3)
  /\ items[2].contentSha256 = items[1].contentSha256
  /\ items[2].canonicalUri # items[1].canonicalUri
  /\ items[3].contentSha256 # items[1].contentSha256
  /\ items[3].contentSha256 # items[2].contentSha256
  /\ items[3].canonicalUri = items[1].canonicalUri
  /\ \E e, f \in 1..Len(edges) :
       /\ edges[e].fromItemId = 1 /\ edges[e].toItemId = 2
       /\ edges[e].meta.reason = "content_sha256"
       /\ edges[f].fromItemId = 1 /\ edges[f].toItemId = 3
       /\ edges[f].meta.reason = "canonical_uri"

\* the collectors whose call has inserted its item and has not returned
PastInsert ==
  {k \in Collectors : cpc[k] \in {"addRunOutput", "createEdge", "logLink",
                                  "logNew"}}

\* every call adds one row to items: each returned call has written its one
\* log entry, each call past its insert has not
C22_OneItemPerCall ==
  Len(items) = Len(logs) + Cardinality(PastInsert)

\* the insert of a call appends the observation, match or no match
C22_InsertStep ==
  [][\A k \in Collectors :
       cpc[k] = "createItem" /\ cpc'[k] # "createItem" =>
         /\ Len(items') = Len(items) + 1
         /\ items'[Len(items')].canonicalUri = cloc[k].canonicalUri
         /\ items'[Len(items')].contentSha256 = cloc[k].contentSha256
         /\ cloc'[k].itemId = Len(items')]_vars

\* what a returned call reports
C22_ResultNamesPredecessor ==
  \A k \in Collectors :
    cres[k].kind = "ok" =>
      LET n == cres[k].itemId IN
        /\ n \in ItemIds
        /\ cres[k].isNew <=> cres[k].supersededItemId = NoItem
        /\ cres[k].isNew <=> SupersedesEdgesTo(n) = {}
        /\ cres[k].isNew <=> DigestMatchesOf(n) = {} /\ UriMatchesOf(n) = {}
        /\ ~cres[k].isNew =>
             /\ cres[k].supersededItemId \in DigestMatchesOf(n) \cup UriMatchesOf(n)
             /\ \E e \in SupersedesEdgesTo(n) :
                  edges[e].fromItemId = cres[k].supersededItemId

\* C22: every successful collectUrl call creates exactly one new item,
\* whether or not a match exists; it returns isNew = true exactly when no
\* predecessor was selected; when isNew = false, supersededItemId is the
\* predecessor and a supersedes edge from it to the new item exists.
C22_AlwaysInsertsAndReports ==
  [](C22_OneItemPerCall /\ C22_ResultNamesPredecessor) /\ C22_InsertStep

\* a call that found a digest match has stored a second item with that
\* digest and returned isNew = false
C22_Witness ==
  \E k \in Collectors :
    /\ cres[k].kind = "ok" /\ ~cres[k].isNew
    /\ cres[k].itemId = Len(items)
    /\ cres[k].supersededItemId \in DigestMatchesOf(cres[k].itemId)
    /\ Len(logs) = Len(items)

\* the run log entries written for the observation stored as item n
LogsOf(n) ==
  {l \in 1..Len(logs) : logs[l].itemId = n}

\* the edge into item n records a conflict between the digest match a and
\* the URI match b, and the log entry of n has level warn
ConflictRecorded(n, e) ==
  /\ edges[e].meta.conflictResolved
  /\ edges[e].meta.contentSha256Match \in MostRecent(DigestMatchesOf(n))
  /\ edges[e].meta.canonicalUriMatch \in MostRecent(UriMatchesOf(n))
  /\ edges[e].meta.contentSha256Match # edges[e].meta.canonicalUriMatch
  /\ edges[e].meta.selected = "content_sha256"
  /\ edges[e].fromItemId = edges[e].meta.contentSha256Match
  /\ \A l \in LogsOf(n) : logs[l].level = "warn"

\* the edge into item n has no conflict fields and the log entry of n has
\* level info
NoConflictRecorded(n, e) ==
  /\ ~edges[e].meta.conflictResolved
  /\ edges[e].meta.contentSha256Match = NoItem
  /\ edges[e].meta.canonicalUriMatch = NoItem
  /\ edges[e].meta.selected = Absent
  /\ \A l \in LogsOf(n) : logs[l].level = "info"

\* C23: when the digest match and the URI match of an observation are
\* different items, the supersedes edge's metadata carries both candidate
\* item ids and selected = content_sha256 and the run log entry of the
\* observation has level warn; when a predecessor is selected without
\* conflict, the metadata has no conflict fields and the entry has level
\* info.
C23_ConflictIsRecorded ==
  \A n \in ItemIds :
    Returned(n) =>
      /\ Cardinality(LogsOf(n)) = 1
      /\ \A e \in SupersedesEdgesTo(n) :
           LET D == MostRecent(DigestMatchesOf(n))
               U == MostRecent(UriMatchesOf(n)) IN
             /\ D # {} /\ U # {} /\ D \cap U = {} => ConflictRecorded(n, e)
             /\ D = {} \/ U = {} \/ Cardinality(D \cup U) = 1 =>
                  NoConflictRecorded(n, e)
             /\ ConflictRecorded(n, e) \/ NoConflictRecorded(n, e)

\* the observation (d1, u2) of the conflict example: its edge starts at A
\* and names A and B, its log entry has level warn
C23_Witness ==
  \E n \in ItemIds : \E e \in SupersedesEdgesTo(n) : \E l \in LogsOf(n) :
    /\ Returned(n)
    /\ edges[e].meta.conflictResolved
    /\ edges[e].meta.contentSha256Match = edges[e].fromItemId
    /\ edges[e].meta.canonicalUriMatch \in UriMatchesOf(n)
    /\ edges[e].meta.canonicalUriMatch \notin DigestMatchesOf(n)
    /\ edges[e].meta.selected = "content_sha256"
    /\ logs[l].level = "warn"

\* of the items S, the most recently created one and, among those that share
\* the latest created_at, the one with the largest item id (item ids are
\* ulids, modelled by the position of the row: a later insert has the larger
\* id)
LatestLargestId(S) ==
  CHOOSE i \in MostRecent(S) : \A j \in MostRecent(S) : j <= i

\* C25: from each match set the resolver takes the most recently created
\* item and, when several items share the latest creation timestamp, the one
\* with the largest item id, whatever order the store returns equal
\* timestamp rows in: the predecessor of an observation with digest matches
\* is that item of the digest matches, otherwise that item of the URI
\* matches.
C25_TieTakesLargestId ==
  \A n \in ItemIds :
    Returned(n) =>
      \A e \in SupersedesEdgesTo(n) :
        edges[e].fromItemId =
          IF DigestMatchesOf(n) # {} THEN LatestLargestId(DigestMatchesOf(n))
                                     ELSE LatestLargestId(UriMatchesOf(n))

\* the collectors whose call has registered its item and has not returned
PastAddRunOutput ==
  {k \in Collectors : cpc[k] \in {"createEdge", "logLink", "logNew"}}

\* the pairs <<run, item>> of the observations collectUrl was called with
\* and has stored: those of the returned calls, one log entry each, and
\* those of the calls that have not returned
CreatedFor ==
  {<<logs[l].runId, logs[l].itemId>> : l \in 1..Len(logs)}
    \cup {<<carg[k].runId, cloc[k].itemId>> : k \in PastAddRunOutput}

\* the runs item i is an output of
RunsOf(i) ==
  {r \in RunIds : <<r, i>> \in outputs}

\* table run_outputs holds the items the calls created, each under the run of
\* its call and under no other
C24_OutputsAreCreatedItems ==
  /\ outputs = CreatedFor
  /\ \A i \in ItemIds : Returned(i) => Cardinality(RunsOf(i)) = 1

\* the step that registers the item of a call
C24_AddRunOutputStep ==
  [][\A k \in Collectors :
       cpc[k] = "addRunOutput" /\ cpc'[k] # "addRunOutput" =>
         outputs' = outputs \cup {<<carg[k].runId, cloc[k].itemId>>}]_vars

\* C24: every item collectUrl creates is registered as an output of the run
\* performing the observation, both when a predecessor was selected and
\* when none was: after any sequence of calls, the outputs of a run are
\* exactly the items those calls created for that run.
C24_EveryItemIsRunOutput ==
  []C24_OutputsAreCreatedItems /\ C24_AddRunOutputStep

\* two runs; a call for the first stored an item without predecessor, a call
\* for the second stored an item with a predecessor; each is an output of
\* its run only
C24_Witness ==
  /\ Len(items) = 2 /\ Returned(2)
  /\ outputs = {<<1, 1>>, <<2, 2>>}
  /\ SupersedesEdgesTo(1) = {}
  /\ SupersedesEdgesTo(2) # {}

\* the run that produced item i
ProducerOf(i) ==
  CHOOSE r \in RunIds : <<r, i>> \in outputs

\* C26: the resolver never selects as predecessor an item produced under a
\* normalization version different from that of the observing run: every
\* supersedes edge joins two items produced under the same version.
C26_NoCrossVersionPredecessor ==
  \A n \in ItemIds :
    Returned(n) =>
      \A e \in SupersedesEdgesTo(n) :
        runs[ProducerOf(edges[e].fromItemId)].normalizationVersion
          = runs[ProducerOf(n)].normalizationVersion

\* the items an edge leads to from item i
Successors(i) ==
  {edges[e].toItemId : e \in {f \in 1..Len(edges) : edges[f].fromItemId = i}}

RECURSIVE ReachedWithin(_, _)
\* the items reached from the items S along at most n further edges
ReachedWithin(S, n) ==
  IF n = 0 THEN S
  ELSE ReachedWithin(S \cup UNION {Successors(i) : i \in S}, n - 1)

\* no item is lost: every call that got as far as its insert has its own row
\* in items, the row holds what the call observed, and once the call is past
\* addRunOutput the row is an output of its run
C27_NoLostItem ==
  /\ Len(items) = Len(logs) + Cardinality(PastInsert)
  /\ \A k, j \in PastInsert :
       /\ cloc[k].itemId \in ItemIds
       /\ items[cloc[k].itemId].contentSha256 = cloc[k].contentSha256
       /\ items[cloc[k].itemId].canonicalUri = cloc[k].canonicalUri
       /\ k # j => cloc[k].itemId # cloc[j].itemId
  /\ \A l, m \in 1..Len(logs) :
       /\ logs[l].itemId \in ItemIds
       /\ <<logs[l].runId, logs[l].itemId>> \in outputs
       /\ l # m => logs[l].itemId # logs[m].itemId

\* no edge has a missing endpoint or joins an item to itself, and no edges
\* form a cycle
C27_EdgesSound ==
  /\ \A e \in 1..Len(edges) :
       /\ edges[e].fromItemId \in ItemIds
       /\ edges[e].toItemId \in ItemIds
       /\ edges[e].fromItemId # edges[e].toItemId
  /\ \A i \in ItemIds : i \notin ReachedWithin(Successors(i), Len(items))

\* C27: when two collectUrl calls observing the same content run
\* concurrently, every interleaving of their queries and writes keeps both
\* items stored and each registered as a run output; there is never a lost
\* item, an edge with a missing endpoint, an edge from an item to itself, or
\* edges forming a cycle.
C27_RaceKeepsLakeSound ==
  C27_NoLostItem /\ C27_EdgesSound

\* the worst outcome: two calls that overlapped both returned isNew = true
\* for the same content, and no edge joins their two items
C27_Witness ==
  /\ cpc["k1"] = "idle" /\ cpc["k2"] = "idle"
  /\ cres["k1"].kind = "ok" /\ cres["k2"].kind = "ok"
  /\ cres["k1"].isNew /\ cres["k2"].isNew
  /\ cres["k1"].itemId # cres["k2"].itemId
  /\ items[cres["k1"].itemId].contentSha256
       = items[cres["k2"].itemId].contentSha256
  /\ {<<1, cres["k1"].itemId>>, <<1, cres["k2"].itemId>>} \subseteq outputs
  /\ edges = <<>>

\* the error entries collectHttpSnapshot wrote for failed urls of run r
FailureLogs(r) ==
  {l \in 1..Len(logs) : /\ logs[l].runId = r
                        /\ logs[l].level = "error"
                        /\ logs[l].message = "Failed to collect"}

\* C28: in a multi-URL collection the failure of one URL does not abort its
\* siblings: when the collection of a run is over and its run is about to be
\* finished, every URL of the list has been attempted, and a run with a
\* failed URL has an error-level log entry for it.
C28_FailureSparesSiblings ==
  rn.pc = "finishRun" =>
    /\ rn.call.urls = <<>>
    /\ rn.call.hasErrors => FailureLogs(rn.call.runId) # {}

\* the output items of run r
OutputsOf(r) ==
  {i \in ItemIds : <<r, i>> \in outputs}

\* C29: the terminal status the runner records for a run is succeeded if
\* and only if at least one output item was produced for that run (the
\* failure of a single URL is no fatal error), and failed otherwise; a run in
\* which some URLs produced items and others failed is recorded as succeeded.
C29_SucceededIffOutput ==
  \A r \in RunIds :
    runs[r].status # "running" =>
      (runs[r].status = "succeeded" <=> OutputsOf(r) # {})

\* the step in which startRun throws idempotency_conflict to the runner
ConflictStep ==
  /\ rn.pc = "startRun"
  /\ rres["c1"].kind = "none"
  /\ rres'["c1"].kind = "idempotency_conflict"

\* the step in which runCollector handles the idempotency conflict
SkipStep ==
  RunCollectorStarted /\ rres["c1"].kind = "idempotency_conflict"

C31_IdentityIsFrozen ==
  [][\A i \in ItemIds :
       /\ i \in 1..Len(items')
       /\ items'[i].canonicalUri = items[i].canonicalUri
       /\ items'[i].contentSha256 = items[i].contentSha256]_vars

\* C31 -- touchUpdatedAt(id) sets updatedAt of item id to now() and changes
\* nothing else: every other field of that item, every other item, and every
\* other table stay as they were.
C31_TouchStep ==
  [][\A id \in ItemRefs :
       TouchUpdatedAt(id) =>
         /\ Len(items') = Len(items)
         /\ \A i \in ItemIds :
              /\ i # id => items'[i] = items[i]
              /\ items'[i].canonicalUri = items[i].canonicalUri
              /\ items'[i].contentSha256 = items[i].contentSha256
              /\ items'[i].blobId = items[i].blobId
              /\ items'[i].textContent = items[i].textContent
              /\ items'[i].createdAt = items[i].createdAt
         /\ id \in ItemIds => items'[id].updatedAt = now
         /\ UNCHANGED <<edges, blobs, outputs, logs, runs, tasks>>]_vars

\* C31 -- after an item is created no operation changes its canonicalUri or
\* contentDigest, and touch(itemId) changes updatedAt only, leaving every
\* other field of that item and every other item unchanged.
C31_TouchChangesUpdatedAtOnly ==
  C31_IdentityIsFrozen /\ C31_TouchStep

\* an item was touched after the instant it was created, next to another item
\* that was not
C31_Witness ==
  \E i, j \in ItemIds :
    /\ items[i].updatedAt > items[i].createdAt
    /\ items[j].updatedAt = items[j].createdAt
    /\ items[i].canonicalUri # NoUri

\* the migrate calls that have ended
MigrateEnded(m) ==
  mig.call[m].pc = "idle" /\ mig.call[m] # NoMigrate

\* where version v was committed in the schema (0 if it was not)
SchemaPosition(v) ==
  IF \E i \in 1..Len(mig.schema) : mig.schema[i] = v
    THEN CHOOSE i \in 1..Len(mig.schema) : mig.schema[i] = v
    ELSE 0

\* C32 -- every applied version is recorded with its schema change and none is
\* applied twice: the committed schema changes are those of the versions in
\* schema_migrations, each once.
C32_RecordedOnceWithSchema ==
  /\ {mig.schema[i] : i \in 1..Len(mig.schema)} = mig.rows
  /\ Len(mig.schema) = Cardinality(mig.rows)

\* C32 -- a step that changes the schema or schema_migrations commits one
\* version that was not recorded, both its schema change and its row.
C32_ApplyStep ==
  [][(mig.schema' # mig.schema \/ mig.rows' # mig.rows) =>
       \E v \in {ReplaceSql(f) : f \in mig.dir} :
         /\ v \notin mig.rows
         /\ mig.schema' = Append(mig.schema, v)
         /\ mig.rows' = mig.rows \cup {v}]_vars

\* C32 -- a migrate call that returns has applied the versions of the folder
\* that were not recorded when it asked, in lexical order of the version, and
\* returns them in that order; when none was pending it returns the empty
\* list.
C32_ReturnsPendingInOrder ==
  \A m \in Migrators :
    MigrateEnded(m) /\ mig.call[m].result.kind = "ok" =>
      LET c == mig.call[m]
          Pending(v) == v \notin c.applied
          r == c.result.versions IN
        /\ r = SelectSeq(c.migrations, Pending)
        /\ \A i, j \in 1..Len(r) :
             i < j => /\ LexLess(r[i], r[j])
                      /\ 0 < SchemaPosition(r[i])
                      /\ SchemaPosition(r[i]) < SchemaPosition(r[j])
        /\ \A i \in 1..Len(r) : r[i] \in mig.rows
        /\ (\A i \in 1..Len(c.migrations) : c.migrations[i] \in c.applied)
             => r = <<>>

BeginStep(w) == pc[w] = "idle" /\ pc'[w] = "scan"

\* C33 -- a markFailed that leaves the task queued changes neither dueAt nor
\* priority nor maxAttempts, so a task that was due stays eligible at the
\* same instant.
C33_MarkFailedKeepsSchedule ==
  [][\A t \in TaskIds :
       (\E e \in Errors : MarkFailed(t, e)) /\ tasks'[t].status = "queued" =>
         /\ tasks'[t].dueAt = tasks[t].dueAt
         /\ tasks'[t].priority = tasks[t].priority
         /\ tasks'[t].maxAttempts = tasks[t].maxAttempts
         /\ tasks[t].dueAt <= now => Eligible(tasks'[t], now)]_vars

\* C33 -- a leaseNext call that begins while a failed task is queued and due
\* finds it, and returns it when it found no other task and no other call
\* has locked it.
C33_NextLeaseReturnsIt ==
  [][\A w \in Workers, t \in TaskIds :
       /\ BeginStep(w) /\ tasks[t].status = "queued" /\ tasks[t].attempts > 0
            /\ tasks[t].dueAt <= now
          => t \in cand'[w]
       /\ SelectStep(w) /\ cand[w] = {t} /\ tasks[t].status = "queued"
            /\ tasks[t].attempts > 0 /\ ~LockedByOther(t, w)
          => sel'[w] = t
       /\ CommitStep(w) /\ sel[w] = t => ret'[w] = t]_vars

\* C33 -- a markFailed that leaves the task queued leaves its dueAt, priority
\* and maxAttempts unchanged, so the task is eligible for leaseNext
\* immediately afterwards with no back-off: with no other eligible task, the
\* next leaseNext returns that same task.
C33_RetryWithoutBackOff ==
  C33_MarkFailedKeepsSchedule /\ C33_NextLeaseReturnsIt

\* a task that failed once is leased again at the instant it was enqueued,
\* beside a task that is not due yet
C33_Witness ==
  \E w \in Workers, t, u \in TaskIds :
    /\ ret[w] = t /\ tasks[t].status = "leased" /\ tasks[t].attempts = 1
    /\ tasks[t].dueAt = now
    /\ tasks[u].dueAt > now

\* every stored item is an output of the run of the current runCollector
\* call: the catalog was empty when its collectHttpSnapshot call began
CatalogWasEmpty ==
  \A i \in ItemIds : <<rn.call.runId, i>> \in outputs

\* C34 -- when one collectHttpSnapshot call has processed its list of
\* distinct urls against a catalog that was empty, it returns one result per
\* url and every result has isNew = true, whatever the fetched bodies were.
C34_DistinctUrlsAllNew ==
  rn.pc = "processResults" /\ CatalogWasEmpty =>
    /\ Len(rn.call.results) = rn.call.urlsAttempted
    /\ \A i \in 1..Len(rn.call.results) : rn.call.results[i].isNew

\* C35 -- a leaseNext call returns only a task no worker holds, and the task
\* it returns is held by its caller from then on.
C35_LeaseTakesFreeTask ==
  [][\A w \in Workers :
       CommitStep(w) /\ ret'[w] # NoTask =>
         /\ tasks[ret'[w]].status = "queued"
         /\ tasks[ret'[w]].lockedBy = NoWorker
         /\ tasks'[ret'[w]].lockedBy = w
         /\ \A v \in Workers \ {w} : sel[v] # ret'[w]]_vars

\* C35 -- a task stays held until a markFailed: no other step, the passing
\* of the lease time included, releases it.
C35_HeldUntilMarkFailed ==
  [][\A t \in TaskIds :
       tasks[t].lockedBy # NoWorker /\ tasks'[t] # tasks[t] =>
         \E e \in Errors : MarkFailed(t, e)]_vars

\* C35 -- a task handed out by leaseNext is held exclusively until it is
\* acknowledged: between a leaseNext that returned task t and the next
\* markFailed that re-queues t, no leaseNext call by any worker returns t.
C35_HeldExclusively ==
  C35_LeaseTakesFreeTask /\ C35_HeldUntilMarkFailed

\* a task failed once is held by w1 on an expired lease, and a call of w2 that
\* began after the lease expired has found nothing to lease
C35_Witness ==
  \E t \in TaskIds :
    /\ tasks[t].lockedBy = "w1" /\ tasks[t].attempts = 1
    /\ pc["w2"] = "locked" /\ sel["w2"] = NoTask
    /\ txNow["w2"] > tasks[t].lockedUntil

\* C36 -- in every reachable state a task whose status is queued has
\* lockedUntil and lockedBy both unset.
C36_QueuedIsUnlocked ==
  \A t \in TaskIds :
    tasks[t].status = "queued" =>
      tasks[t].lockedUntil = NoTime /\ tasks[t].lockedBy = NoWorker

\* C36 -- lock fields are written only by leaseNext, together with status
\* leased, and every markFailed clears them.
C36_LockWrites ==
  [][\A t \in TaskIds :
       /\ (tasks'[t].lockedBy # tasks[t].lockedBy
              \/ tasks'[t].lockedUntil # tasks[t].lockedUntil)
            /\ tasks'[t].lockedBy # NoWorker
          => /\ \E w \in Workers : CommitStep(w) /\ ret'[w] = t
             /\ tasks'[t].status = "leased"
             /\ tasks'[t].lockedUntil # NoTime
       /\ (\E e \in Errors : MarkFailed(t, e))
          => tasks'[t].lockedBy = NoWorker /\ tasks'[t].lockedUntil = NoTime]_vars

\* C36 -- in every reachable state a task whose status is queued has
\* lockedUntil and lockedBy both unset: lock fields are written only by
\* leaseNext (together with status leased) and are cleared by every
\* markFailed.
C36_QueuedHasNoLock ==
  []C36_QueuedIsUnlocked /\ C36_LockWrites

\* a task that was leased and then failed is queued again, without a lock
C36_Witness ==
  \E t \in TaskIds :
    /\ tasks[t].status = "queued" /\ tasks[t].attempts = 1
    /\ tasks[t].lockedBy = NoWorker
    /\ \E w \in Workers : ret[w] = t

\* C37 -- every enqueued task eventually reaches succeeded or dead once its
\* dueAt has passed.
C37_EveryDueTaskEnds ==
  \A t \in 1..MaxWorkTasks :
    (t \in TaskIds /\ tasks[t].dueAt <= now)
      ~> (t \in TaskIds /\ tasks[t].status \in {"succeeded", "dead"})

\* C37 -- every lease of a task takes it queued and with attempts below
\* maxAttempts (for maxAttempts >= 1), and every change of attempts is one
\* failed lease: attempts counts the leases that failed.
C37_AttemptsCountFailedLeases ==
  [][/\ \A w \in Workers :
          CommitStep(w) /\ ret'[w] # NoTask =>
            /\ tasks[ret'[w]].status = "queued"
            /\ tasks[ret'[w]].maxAttempts >= 1
                 => tasks[ret'[w]].attempts < tasks[ret'[w]].maxAttempts
     /\ \A t \in TaskIds :
          tasks'[t].attempts # tasks[t].attempts =>
            /\ tasks[t].status = "leased"
            /\ tasks'[t].attempts = tasks[t].attempts + 1
            /\ tasks'[t].status \in {"queued", "dead"}]_vars

\* C37 -- a dead task has failed maxAttempts leases (for maxAttempts >= 1),
\* and a task that is succeeded or dead is never leased or changed again.
C37_DeadAfterMaxAttempts ==
  \A t \in TaskIds :
    tasks[t].status = "dead" /\ tasks[t].maxAttempts >= 1 =>
      tasks[t].attempts = tasks[t].maxAttempts

C37_EndedStays ==
  [][\A t \in TaskIds :
       tasks[t].status \in {"succeeded", "dead"} => tasks'[t] = tasks[t]]_vars

\* C37 -- with a worker that keeps calling leaseNext and acknowledges every
\* task it receives with markSucceeded or markFailed, every enqueued task
\* eventually reaches succeeded or dead once its dueAt has passed, and a task
\* that fails on every lease is leased exactly maxAttempts times (for
\* maxAttempts >= 1) and never again after it is dead.
C37_WorkerFinishesEveryTask ==
  /\ C37_EveryDueTaskEnds
  /\ C37_AttemptsCountFailedLeases
  /\ []C37_DeadAfterMaxAttempts
  /\ C37_EndedStays

\* a task with maxAttempts 2 is dead after two failed leases, next to a task
\* that succeeded
C37_Witness ==
  \E t, u \in TaskIds :
    /\ tasks[t].status = "dead" /\ tasks[t].maxAttempts = 2
    /\ tasks[t].attempts = 2
    /\ tasks[u].status = "succeeded"

\* the step in which call k creates its supersedes edge
CreateEdgeStep(k) == cpc[k] = "createEdge" /\ cpc'[k] = "logLink"

\* the supersedes edges that end at item i
SupersedesInto(i) ==
  {e \in 1..Len(edges) : edges[e].rel = "supersedes" /\ edges[e].toItemId = i}

\* C38 -- supersedes edges never form a self-loop or a cycle, and every item
\* has at most one incoming supersedes edge.
C38_LineageIsForest ==
  /\ \A e \in 1..Len(edges) : edges[e].fromItemId # edges[e].toItemId
  /\ \A i \in ItemIds :
       /\ i \notin ReachedWithin(Successors(i), Len(items))
       /\ Cardinality(SupersedesInto(i)) <= 1

\* C38 as stated -- every supersedes edge goes from an item created before
\* the call started to the item that call created.
C38_EdgeFromBeforeCallStep ==
  [][\A k \in Collectors :
       CreateEdgeStep(k) =>
         /\ Len(edges') = Len(edges) + 1
         /\ edges'[Len(edges')].toItemId = cloc[k].itemId
         /\ edges'[Len(edges')].fromItemId <= carg[k].stored]_vars

\* C38 as stated -- after any sequence or interleaving of resolver calls,
\* every supersedes edge goes from an item created before the call started to
\* the item that call created; so supersedes edges never form a self-loop or
\* a cycle, and every item has at most one incoming supersedes edge.
C38_EdgesFromBeforeCall ==
  C38_EdgeFromBeforeCallStep /\ []C38_LineageIsForest

\* C38, amended -- every supersedes edge goes from an item created before the
\* call created its own item to that item.
C38_EdgeFromBeforeInsertStep ==
  [][\A k \in Collectors :
       CreateEdgeStep(k) =>
         /\ Len(edges') = Len(edges) + 1
         /\ edges'[Len(edges')].rel = "supersedes"
         /\ edges'[Len(edges')].toItemId = cloc[k].itemId
         /\ edges'[Len(edges')].fromItemId < cloc[k].itemId
         /\ edges'[Len(edges')].fromItemId \in ItemIds
         /\ SupersedesInto(cloc[k].itemId) = {}]_vars

\* C38, amended -- after any sequence or interleaving of resolver calls,
\* every supersedes edge goes from an item created before the call created
\* its own item to that item; so supersedes edges never form a self-loop or a
\* cycle, and every item has at most one incoming supersedes edge.
C38_EdgesFromBeforeInsert ==
  C38_EdgeFromBeforeInsertStep /\ []C38_LineageIsForest

\* a call has linked its item to a predecessor that another call created
\* after this call had begun
C38_Witness ==
  \E k \in Collectors :
    /\ cpc[k] = "logLink"
    /\ cloc[k].existingItem > carg[k].stored
    /\ \E e \in 1..Len(edges) :
         /\ edges[e].fromItemId = cloc[k].existingItem
         /\ edges[e].toItemId = cloc[k].itemId

\* the uploads of blob id b that have ended, with an answer or an error
UploadsEnded(b) ==
  {p \in Uploaders : /\ gw.put[p] # NoUpload
                     /\ gw.put[p].pc = "idle"
                     /\ gw.put[p].bytes # <<>>
                     /\ sha256(gw.put[p].bytes) = b}

\* C39 -- once the blob upload has answered a request with a blobId, the
\* bytes for that blobId are in the object store.
C39_AnsweredBlobIsStored ==
  \A p \in Uploaders :
    gw.put[p] # NoUpload /\ gw.put[p].reply.code = 200 =>
      gw.put[p].reply.blobId \in gw.objects

\* C39 -- after an upload of a blob id has ended, also one whose object-store
\* write failed, a download of that blob id that finds its metadata row
\* never finds the object missing.
C39_LaterDownloadFindsObject ==
  [][gw'.get # gw.get /\ UploadsEnded(gw'.get.blobId) # {} =>
       gw'.get.code # 500]_vars

\* C39 -- once the gateway's blob upload has answered a request with a
\* blobId, the bytes for that blobId are in the object store: under any
\* interleaving of concurrent uploads of identical bytes, and after an upload
\* whose object-store write failed following the metadata insert, a later
\* download of a blobId that has a metadata row never finds the object
\* missing.
C39_UploadedBlobIsDownloadable ==
  []C39_AnsweredBlobIsStored /\ C39_LaterDownloadFindsObject

\* runCollector's call of finishCollectorRun stores the stats of its run
FinishRunStep ==
  rn.pc = "finishRun" /\ fres = "none" /\ fres' = "resolved"

\* the output items of run r that no supersedes edge ends at
OutputsWithoutPredecessor(r) ==
  {i \in OutputsOf(r) : SupersedesInto(i) = {}}

\* C40 -- when the collector runner finishes a run, the stats it stores agree
\* with the ledger: metrics.stats.urlsSucceeded equals the number of items
\* registered as outputs of that run and metrics.stats.itemsCreated equals
\* the number of those items that have no predecessor, including for runs in
\* which a later URL failed after earlier URLs had produced items.
C40_StatsAgreeWithLedger ==
  [][FinishRunStep /\ rn.call.runId \in RunIds =>
       LET stats == runs'[rn.call.runId].metrics.stats
       IN  /\ stats.urlsSucceeded = Cardinality(OutputsOf(rn.call.runId))
           /\ stats.itemsCreated =
                Cardinality(OutputsWithoutPredecessor(rn.call.runId))]_vars

====
